---- MODULE Spec2Model ----
(***************************************************************************)
(* Model of the keyword pipeline: brands_catalog.py (normalisation,        *)
(* variants, reverse index, canonicalize), keywordtool_fetch.py            *)
(* (aggregate_to_canonical, request_keywordtool, the fetch run),          *)
(* niche_brand_audit.py (the two TTL caches, the ban flag, the competitor  *)
(* choice and the token matcher) and rank_competitors.py (the join of the  *)
(* volumes).                                                               *)
(*                                                                         *)
(* A Python str is a sequence of characters, a character a one-element     *)
(* TLA+ string.  An Optional value is a set with at most one element:      *)
(* None is {} and a value v is {v}.                                        *)
(***************************************************************************)
EXTENDS Integers, Sequences, FiniteSets, TLC

VARIABLES
    CANON_BY_COUNTRY,          \* brands_catalog.CANON_BY_COUNTRY: scope -> list of canons
    EXTRA_ALIASES_BY_COUNTRY,  \* brands_catalog.EXTRA_ALIASES_BY_COUNTRY: scope -> canon -> list
    VARIANTS_CACHE,            \* brands_catalog._VARIANTS_CACHE
    REVERSE_CACHE,             \* brands_catalog._REVERSE_CACHE
    cat_call,                  \* the last catalog call and what it returned
    norm_in, norm_out,         \* normalize_text: argument, results of successive applications
    agg_rows, agg_out,         \* aggregate_to_canonical: argument and result
    now,                       \* niche_brand_audit._now(), in ticks
    play_cache, aspy_cache,    \* niche_brand_audit.play_cache / aspy_cache (in memory)
    play_doc, aspy_doc,        \* .cache/play_search.json / .cache/aspy_meta.json
    cache_call,                \* the last cached lookup and what it did
    enriched, audit_row,       \* audit_country_all_brands: candidates of one brand, its row
    tok_brand, tok_titles, tok_out, \* any_brand_in_title: arguments and result
    req_retries, req_attempt,  \* request_keywordtool: retries, attempt
    req_log, req_out,          \* the answers to its requests so far; how it ended
    fetch_countries,           \* keywordtool_fetch.main: countries
    fetch_batches,             \* the number of chunks of a scope's keywords
    fetch_scope, fetch_batch,  \* the scope and the chunk being fetched
    fetch_rows,                \* fetch_for_country: rows_variants
    fetch_files,               \* the result files written so far
    fetch_failed,              \* the chunks whose request raised
    fetch_status,              \* whether the run goes on, is done, or was aborted
    audit_cc,                  \* audit_country_all_brands: country_code of the audit under way
    written_in,                \* for every cache entry, the audit that stored it
    flag_data, flag_out,       \* _extract_banned_flag: argument and result
    rank_countries,            \* rank_competitors.main: countries
    rank_files,                \* the volume files <cc>_results.csv
    rank_audit,                \* the audit CSV
    rank_out                   \* merged: the audit rows with their search volume

vars == << CANON_BY_COUNTRY, EXTRA_ALIASES_BY_COUNTRY, VARIANTS_CACHE, REVERSE_CACHE,
           cat_call, norm_in, norm_out, agg_rows, agg_out, now, play_cache, aspy_cache,
           play_doc, aspy_doc, cache_call, enriched, audit_row,
           tok_brand, tok_titles, tok_out, req_retries, req_attempt, req_log, req_out,
           fetch_countries, fetch_batches, fetch_scope, fetch_batch, fetch_rows,
           fetch_files, fetch_failed, fetch_status, audit_cc, written_in,
           flag_data, flag_out, rank_countries, rank_files, rank_audit, rank_out >>

catVars   == << CANON_BY_COUNTRY, EXTRA_ALIASES_BY_COUNTRY, VARIANTS_CACHE, REVERSE_CACHE, cat_call >>
normVars  == << norm_in, norm_out >>
aggVars   == << agg_rows, agg_out >>
cacheVars == << now, play_cache, aspy_cache, play_doc, aspy_doc, cache_call >>
auditVars == << enriched, audit_row >>
tokVars   == << tok_brand, tok_titles, tok_out >>
reqVars   == << req_retries, req_attempt, req_log, req_out >>
fetchVars == << fetch_countries, fetch_batches, fetch_scope, fetch_batch, fetch_rows,
                fetch_files, fetch_failed, fetch_status >>
scopeVars == << audit_cc, written_in >>
flagVars  == << flag_data, flag_out >>
rankVars  == << rank_countries, rank_files, rank_audit, rank_out >>

----------------------------------------------------------------------------
(* Characters.                                                             *)

UpperChars == << "A","B","C","D","E","F","G","H","I","J","K","L","M",
                 "N","O","P","Q","R","S","T","U","V","W","X","Y","Z" >>
LowerChars == << "a","b","c","d","e","f","g","h","i","j","k","l","m",
                 "n","o","p","q","r","s","t","u","v","w","x","y","z" >>
DigitChars == << "0","1","2","3","4","5","6","7","8","9" >>

\* U+0301 COMBINING ACUTE ACCENT, the mark NFKD splits off an accented letter
CombiningAcute == "U+0301"
\* U+00E1 and U+00C1, a with acute, small and capital (as in "Jugadon", "Kaka")
SmallAAcute == "U+00E1"
CapitalAAcute == "U+00C1"
\* U+2122 TRADE MARK SIGN: not cased, and NFKD turns it into the capitals T, M
TradeMark == "U+2122"

SeqRange(s) == { s[i] : i \in DOMAIN s }
IndexOf(s, c) == CHOOSE i \in DOMAIN s : s[i] = c

UpperSet == SeqRange(UpperChars)
LowerSet == SeqRange(LowerChars)
DigitSet == SeqRange(DigitChars)

\* str.lower() on the capitals A-Z
LowerOfUpper == [ c \in UpperSet |-> LowerChars[IndexOf(UpperChars, c)] ]

\* str.lower() on one character
LowerChar(c) ==
    IF c \in UpperSet THEN LowerOfUpper[c]
    ELSE IF c = CapitalAAcute THEN SmallAAcute
    ELSE c

\* unicodedata.normalize('NFKD', c) on one character: a sequence of characters
NFKDChar(c) ==
    IF c = SmallAAcute THEN << "a", CombiningAcute >>
    ELSE IF c = CapitalAAcute THEN << "A", CombiningAcute >>
    ELSE IF c = TradeMark THEN << "T", "M" >>
    ELSE << c >>

\* unicodedata.combining(c) != 0
combining(c) == c = CombiningAcute

\* str.isspace(), what str.strip() removes at both ends
IsSpace(c) == c = " "

\* the class [a-z0-9] of the regular expressions
AZ09 == LowerSet \cup DigitSet
IsAZ09(c) == c \in AZ09

\* ord(c), the code point, of the letters and digits
OrdOfAlnum ==
    [ c \in UpperSet \cup LowerSet \cup DigitSet |->
        IF c \in UpperSet THEN 64 + IndexOf(UpperChars, c)
        ELSE IF c \in LowerSet THEN 96 + IndexOf(LowerChars, c)
        ELSE 47 + IndexOf(DigitChars, c) ]

\* ord(c): the code point, which orders str comparison
Ord(c) ==
    IF c \in DOMAIN OrdOfAlnum THEN OrdOfAlnum[c]
    ELSE IF c = " " THEN 32
    ELSE IF c = "(" THEN 40
    ELSE IF c = ")" THEN 41
    ELSE IF c = "+" THEN 43
    ELSE IF c = "-" THEN 45
    ELSE IF c = "." THEN 46
    ELSE IF c = CapitalAAcute THEN 193
    ELSE IF c = SmallAAcute THEN 225
    ELSE IF c = CombiningAcute THEN 769
    ELSE 8482  \* TradeMark

----------------------------------------------------------------------------
(* Strings.                                                                *)

RECURSIVE Flatten(_)
Flatten(ss) == IF ss = << >> THEN << >> ELSE Head(ss) \o Flatten(Tail(ss))

MapSeq(s, Op(_)) == [ i \in DOMAIN s |-> Op(s[i]) ]

\* str.lower()
lower(s) == MapSeq(s, LowerChar)

\* a is a substring of b
IsSubstring(a, b) ==
    \E i \in 0 .. (Len(b) - Len(a)) : SubSeq(b, i + 1, i + Len(a)) = a

RECURSIVE lstrip(_)
lstrip(s) == IF s # << >> /\ IsSpace(Head(s)) THEN lstrip(Tail(s)) ELSE s

RECURSIVE rstrip(_)
rstrip(s) ==
    IF s # << >> /\ IsSpace(s[Len(s)]) THEN rstrip(SubSeq(s, 1, Len(s) - 1)) ELSE s

\* str.strip()
strip(s) == rstrip(lstrip(s))

\* unicodedata.normalize('NFKD', s)
NFKD(s) == Flatten(MapSeq(s, NFKDChar))

NotCombining(c) == ~combining(c)

\* a < b for two str (lexicographic by code point)
RECURSIVE StrLess(_, _)
StrLess(a, b) ==
    IF b = << >> THEN FALSE
    ELSE IF a = << >> THEN TRUE
    ELSE IF Ord(Head(a)) # Ord(Head(b)) THEN Ord(Head(a)) < Ord(Head(b))
    ELSE StrLess(Tail(a), Tail(b))

\* sorted(S) for a set of str
RECURSIVE sorted(_)
sorted(S) ==
    IF S = {} THEN << >>
    ELSE LET m == CHOOSE x \in S : \A y \in S \ {x} : StrLess(x, y)
         IN  << m >> \o sorted(S \ {m})

\* every str over alphabet A of length at most n
RECURSIVE StringsUpTo(_, _)
StringsUpTo(A, n) ==
    IF n = 0 THEN { << >> }
    ELSE LET shorter == StringsUpTo(A, n - 1)
         IN  shorter \cup { Append(s, c) : s \in shorter, c \in A }

----------------------------------------------------------------------------
(* brands_catalog.py: normalisation and variants.                          *)

normalize_text_no_filter(s) ==
    SelectSeq(NFKD(lower(strip(s))), NotCombining)

\* normalize_text(s): lower + remove diacritics + keep only a-z0-9
normalize_text(s) ==
    SelectSeq(SelectSeq(NFKD(lower(strip(s))), NotCombining), IsAZ09)

RECURSIVE uniq_from(_, _)
uniq_from(seq, seen) ==
    IF seq = << >> THEN << >>
    ELSE LET k  == strip(Head(seq))
             lk == lower(k)
         IN  IF k = << >> \/ lk \in seen
             THEN uniq_from(Tail(seq), seen)
             ELSE << k >> \o uniq_from(Tail(seq), seen \cup {lk})

\* uniq(seq): strip, drop empties, keep the first of every case-insensitive class
uniq(seq) == uniq_from(seq, {})

\* _base_variants(canon)
base_variants(canon) ==
    LET glued == normalize_text(canon)
        v     == << canon, lower(canon) >>
                    \o (IF glued # << >> /\ glued # lower(canon) THEN << glued >> ELSE << >>)
    IN  uniq(v)

\* extras.get(c, [])
ExtrasGet(extras, c) == IF c \in DOMAIN extras THEN extras[c] ELSE << >>

\* _build_variants_map(canon_list, extras): the dict in insertion order, as the
\* list of the values, entry i being the variants of canon_list[i]
build_variants_map(canon_list, extras) ==
    [ i \in DOMAIN canon_list |->
        uniq(base_variants(canon_list[i]) \o ExtrasGet(extras, canon_list[i])) ]

\* the (key, canon) assignments of _make_reverse_index, in execution order
RevAssignments(canon_list, vm) ==
    Flatten([ i \in DOMAIN canon_list |->
                [ j \in DOMAIN vm[i] |-> << normalize_text(vm[i][j]), canon_list[i] >> ] ])

RECURSIVE AssignKeepingFirst(_, _)
AssignKeepingFirst(rev, todo) ==
    IF todo = << >> THEN rev
    ELSE AssignKeepingFirst(rev @@ (Head(todo)[1] :> Head(todo)[2]), Tail(todo))

make_reverse_index_first_wins(canon_list, vm) ==
    AssignKeepingFirst(<< >>, RevAssignments(canon_list, vm))

\* rev[key] = canon, one assignment after the other: a later one overwrites
RECURSIVE AssignAll(_, _)
AssignAll(rev, todo) ==
    IF todo = << >> THEN rev
    ELSE AssignAll((Head(todo)[1] :> Head(todo)[2]) @@ rev, Tail(todo))

\* _make_reverse_index(variants_map)
make_reverse_index(canon_list, vm) ==
    AssignAll(<< >>, RevAssignments(canon_list, vm))

----------------------------------------------------------------------------
(* brands_catalog.py: the catalog and its memoised maps.                   *)

MaxCanon == 2    \* entries written in the scope's canonical list

\* Surface strings for catalog entries, one or more per character class:
\* lower case, upper case, punctuation inside, a diacritic, white space around
\* and inside, and nothing alphanumeric at all.
Names ==
    { << "a" >>, << "A" >>, << "a", "." >>, << SmallAAcute >>,
      << " ", "A", " ", "b" >>, << "." >> }

AliasPool == { << "A" >>, << "a", "b" >>, << "A", "B" >> }

RECURSIVE SeqsUpTo(_, _)
SeqsUpTo(S, n) ==
    IF n = 0 THEN { << >> }
    ELSE LET shorter == SeqsUpTo(S, n - 1)
         IN  shorter \cup { Append(q, x) : q \in shorter, x \in S }

\* the catalog contents the scope is given: a canonical list (through uniq, as
\* CANON_BY_COUNTRY is written) and at most one curated alias
CanonLists == { uniq(raw) : raw \in SeqsUpTo(Names, MaxCanon) \ { << >> } }
ExtrasChoices ==
    { << >> } \cup { (k :> << x >>) : k \in { strip(n) : n \in Names }, x \in AliasPool }

\* set(): the union of the variant lists of a variants map
VariantSet(vm) == UNION { SeqRange(vm[i]) : i \in DOMAIN vm }

\* all_variants_for_country, given the variants map
all_variants_of(vm) == sorted(VariantSet(vm))

\* dict.get(key) on a reverse index
RevGetByPrefix(rev, key) ==
    { rev[k] : k \in { x \in DOMAIN rev :
                         Len(key) <= Len(x) /\ SubSeq(x, 1, Len(key)) = key } }
RevGet(rev, key) == IF key \in DOMAIN rev THEN { rev[key] } ELSE {}

NoCall ==
    [ op |-> "none", code |-> "", s |-> << >>, ret |-> {}, list |-> << >>, err |-> {} ]

\* COUNTRIES, its keys; get_supported_countries() is their sorted list
Countries == { "ar", "br", "pl" }
get_supported_countries == << "ar", "br", "pl" >>

\* the scope ids the operations are called with: one of the catalog, its
\* upper-case spelling, and one that is unknown
CallCodes == { "br", "BR", "xx" }

\* (code or "").lower()
lower_code(code) == IF code = "BR" THEN "br" ELSE code

\* the KeyError an operation raises: the text before the id, the id the
\* message names, and the ids it lists as supported (none: the empty list)
KeyError(text, id, supported) == [ text |-> text, id |-> id, supported |-> supported ]

\* a call that ended with an error
Raised(op, code, s, e) ==
    [ op |-> op, code |-> code, s |-> s, ret |-> {}, list |-> << >>, err |-> { e } ]
\* a call that returned
Gave(op, code, s, ret, list) ==
    [ op |-> op, code |-> code, s |-> s, ret |-> ret, list |-> list, err |-> {} ]

\* the three forms of an entity the catalog promises to recognise
Forms(E) == { E, lower(E), normalize_text(E) }

\* the strings canonicalize is called with: every entity's three forms, every
\* name and alias, and strings that match nothing
Probes(code) ==
    UNION { Forms(CANON_BY_COUNTRY[code][i]) : i \in DOMAIN CANON_BY_COUNTRY[code] }
    \cup Names \cup AliasPool \cup { << >>, << "z" >> }

\* the strings it is called with under a scope id that does not name a scope
StrayProbes == { << "a" >> }

\* the module-level state of brands_catalog after import, for one catalog content
InitCatalog ==
    /\ flag_data = << >> /\ flag_out = {}
    /\ rank_countries = << >> /\ rank_files = << >>
    /\ rank_audit = << >> /\ rank_out = << >>
    /\ audit_cc = "" /\ written_in = << >>
    /\ req_retries = 0 /\ req_attempt = 0 /\ req_log = << >> /\ req_out = {}
    /\ fetch_countries = << >> /\ fetch_batches = 0
    /\ fetch_scope = 0 /\ fetch_batch = 0 /\ fetch_rows = << >>
    /\ fetch_files = << >> /\ fetch_failed = {} /\ fetch_status = "idle"
    /\ \E cl \in CanonLists, ex \in ExtrasChoices :
          /\ CANON_BY_COUNTRY = [ c \in { "br" } |-> cl ]
          /\ EXTRA_ALIASES_BY_COUNTRY = [ c \in { "br" } |-> ex ]
    /\ VARIANTS_CACHE = << >>
    /\ REVERSE_CACHE = << >>
    /\ cat_call = NoCall
    /\ norm_in = << >> /\ norm_out = << >>
    /\ agg_rows = << >> /\ agg_out = << >>
    /\ now = 0
    /\ play_cache = << >> /\ aspy_cache = << >>
    /\ play_doc = << >> /\ aspy_doc = << >>
    /\ cache_call = << >>
    /\ enriched = << >> /\ audit_row = << >>
    /\ tok_brand = << >> /\ tok_titles = << >> /\ tok_out = {}

\* _ensure_country_built(code), for a code in the catalog
ensure_country_built(code) ==
    /\ VARIANTS_CACHE' =
          IF code \in DOMAIN VARIANTS_CACHE THEN VARIANTS_CACHE
          ELSE (code :> build_variants_map(CANON_BY_COUNTRY[code],
                                           ExtrasGet(EXTRA_ALIASES_BY_COUNTRY, code)))
                  @@ VARIANTS_CACHE
    /\ REVERSE_CACHE' =
          IF code \in DOMAIN VARIANTS_CACHE THEN REVERSE_CACHE
          ELSE (code :> make_reverse_index(CANON_BY_COUNTRY[code], VARIANTS_CACHE'[code]))
                  @@ REVERSE_CACHE
    /\ UNCHANGED << CANON_BY_COUNTRY, EXTRA_ALIASES_BY_COUNTRY >>

CatOthers == UNCHANGED << normVars, aggVars, cacheVars, auditVars, tokVars,
                    reqVars, fetchVars, scopeVars,
                    flagVars, rankVars >>

\* _ensure_country_built(code) when the lower-cased code is not in
\* CANON_BY_COUNTRY: KeyError, nothing built
unknown_for_brands(code) ==
    KeyError("Unknown country code for brands: ", lower_code(code), << >>)

\* the part of an operation after _ensure_country_built(code) has returned:
\* it indexes the memoised map with the code as the caller wrote it
built_then(op, code, s, ret, list) ==
    /\ ensure_country_built(lower_code(code))
    /\ cat_call' = IF code \in DOMAIN VARIANTS_CACHE'
                    THEN Gave(op, code, s, ret, list)
                    ELSE Raised(op, code, s, KeyError("", code, << >>))

\* an operation that raises before it touches the memoised maps
raises_only(op, code, s, e) ==
    /\ cat_call' = Raised(op, code, s, e)
    /\ UNCHANGED << CANON_BY_COUNTRY, EXTRA_ALIASES_BY_COUNTRY,
                    VARIANTS_CACHE, REVERSE_CACHE >>

InCatalog(code) == lower_code(code) \in DOMAIN CANON_BY_COUNTRY

\* canonicalize(code, s)
CanonicalizeCall(code, s) ==
    /\ IF InCatalog(code)
       THEN built_then("canonicalize", code, s,
                       RevGet(REVERSE_CACHE'[lower_code(code)], normalize_text(s)), << >>)
       ELSE raises_only("canonicalize", code, s, unknown_for_brands(code))
    /\ CatOthers

\* all_variants_for_country(code)
AllVariantsCall(code) ==
    /\ IF InCatalog(code)
       THEN built_then("all_variants", code, << >>, {},
                       all_variants_of(VARIANTS_CACHE'[lower_code(code)]))
       ELSE raises_only("all_variants", code, << >>, unknown_for_brands(code))
    /\ CatOthers

\* variants_map(code): returns _VARIANTS_CACHE[code] itself
VariantsMapCall(code) ==
    /\ IF InCatalog(code)
       THEN built_then("variants_map", code, << >>, {}, << >>)
       ELSE raises_only("variants_map", code, << >>, unknown_for_brands(code))
    /\ CatOthers

\* canonical_list(code): a copy of CANON_BY_COUNTRY[code.lower()]
CanonicalListCall(code) ==
    /\ IF InCatalog(code)
       THEN /\ cat_call' = Gave("canonical_list", code, << >>, {},
                                CANON_BY_COUNTRY[lower_code(code)])
            /\ UNCHANGED << CANON_BY_COUNTRY, EXTRA_ALIASES_BY_COUNTRY,
                            VARIANTS_CACHE, REVERSE_CACHE >>
       ELSE raises_only("canonical_list", code, << >>,
                        KeyError("Unknown country code: ", lower_code(code), << >>))
    /\ CatOthers

\* get_country_config(code): COUNTRIES[code.lower()] (the returned settings
\* are not recorded)
GetCountryConfigCall(code) ==
    /\ IF lower_code(code) \in Countries
       THEN /\ cat_call' = Gave("get_country_config", code, << >>, {}, << >>)
            /\ UNCHANGED << CANON_BY_COUNTRY, EXTRA_ALIASES_BY_COUNTRY,
                            VARIANTS_CACHE, REVERSE_CACHE >>
       ELSE raises_only("get_country_config", code, << >>,
                        KeyError("Unknown country code: ", lower_code(code),
                                 get_supported_countries))
    /\ CatOthers

CatNext ==
    \/ \E code \in CallCodes :
          \E s \in (IF code \in DOMAIN CANON_BY_COUNTRY THEN Probes(code) ELSE StrayProbes) :
             CanonicalizeCall(code, s)
    \/ \E code \in CallCodes : AllVariantsCall(code)
    \/ \E code \in CallCodes : VariantsMapCall(code)
    \/ \E code \in CallCodes : CanonicalListCall(code)
    \/ \E code \in CallCodes : GetCountryConfigCall(code)

----------------------------------------------------------------------------
(* brands_catalog.py: what the catalog promises.                           *)

\* the last call was op and it returned
CatReturned(op) == cat_call.op = op /\ cat_call.err = {}

CallCanon == CANON_BY_COUNTRY[cat_call.code]
CallVariants == VARIANTS_CACHE[cat_call.code]

\* a variant of an entity after entity i has the normalized form of s
LaterCollision(i, s) ==
    \E j \in DOMAIN CallVariants :
        /\ j > i
        /\ \E n \in DOMAIN CallVariants[j] :
              normalize_text(CallVariants[j][n]) = normalize_text(s)

\* C1 as stated: canonicalize(scope, s) returns E whenever s is E's exact text,
\* its lower-cased text or normalize_text(E), whatever the catalog holds.
C1_AnyCatalog ==
    CatReturned("canonicalize") =>
        \A i \in DOMAIN CallCanon :
            cat_call.s \in Forms(CallCanon[i]) => cat_call.ret = { CallCanon[i] }

\* C1 amended: canonicalize(scope, s) returns E whenever s is E's exact text,
\* its lower-cased text or normalize_text(E), unless an entity later in the
\* catalog order has a variant with the same normalized form.
C1_UnlessLaterCollision ==
    CatReturned("canonicalize") =>
        \A i \in DOMAIN CallCanon :
            (cat_call.s \in Forms(CallCanon[i]) /\ ~LaterCollision(i, cat_call.s))
                => cat_call.ret = { CallCanon[i] }

\* C1's case: an entity that is not the first, asked for by its lower-cased or
\* glued form while an earlier entity has the same normalized form
C1_Witness ==
    /\ CatReturned("canonicalize")
    /\ \E i \in DOMAIN CallCanon :
          /\ cat_call.s \in Forms(CallCanon[i]) \ { CallCanon[i] }
          /\ ~LaterCollision(i, cat_call.s)
          /\ \E j \in 1..(i - 1) :
                normalize_text(CallCanon[j]) = normalize_text(CallCanon[i])
          /\ cat_call.ret = { CallCanon[i] }

InList(x, list) == \E n \in DOMAIN list : list[n] = x

\* s matches a variant of the scope: some variant has its normalized form
MatchesVariant(s) ==
    \E i \in DOMAIN CallVariants : \E n \in DOMAIN CallVariants[i] :
        normalize_text(CallVariants[i][n]) = normalize_text(s)

\* C11: for a scope of the catalog and any surface string, the empty string
\* and strings without a letter or digit included, canonicalize raises no
\* error, and returns None when the string matches no variant of the scope.
C11_MissReturnsNone ==
    (cat_call.op = "canonicalize" /\ cat_call.code \in DOMAIN CANON_BY_COUNTRY) =>
        /\ cat_call.err = {}
        /\ ~ MatchesVariant(cat_call.s) => cat_call.ret = {}

\* canonicalize of "." in a scope of two entities, none of them without a
\* letter or digit, gave None
C11_Witness ==
    /\ CatReturned("canonicalize")
    /\ cat_call.s = << "." >>
    /\ Len(CallCanon) = 2
    /\ ~ MatchesVariant(cat_call.s)
    /\ cat_call.ret = {}

\* the entities of a variants map that have a variant with normalized form k
HoldersOf(vm, k) ==
    { i \in DOMAIN vm : \E n \in DOMAIN vm[i] : normalize_text(vm[i][n]) = k }
LastOf(I) == CHOOSE i \in I : \A j \in I : j <= i

\* C26: in a scope that has been built, a normalized form shared by
\* variants of two or more entities is mapped by the reverse index to the
\* one of them that is last in catalog order; canonicalize of a string with
\* that form returns this entity; and no call on the scope ends in an error.
C26_LastDefinitionWins ==
    \A code \in DOMAIN REVERSE_CACHE :
       /\ \A k \in DOMAIN REVERSE_CACHE[code] :
             Cardinality(HoldersOf(VARIANTS_CACHE[code], k)) >= 2 =>
                REVERSE_CACHE[code][k] =
                   CANON_BY_COUNTRY[code][LastOf(HoldersOf(VARIANTS_CACHE[code], k))]
       /\ (cat_call.op = "canonicalize" /\ cat_call.code = code) =>
             /\ cat_call.err = {}
             /\ Cardinality(HoldersOf(VARIANTS_CACHE[code], normalize_text(cat_call.s))) >= 2 =>
                   cat_call.ret =
                      { CANON_BY_COUNTRY[code][LastOf(HoldersOf(VARIANTS_CACHE[code],
                                                               normalize_text(cat_call.s)))] }
       /\ (cat_call.op # "none" /\ cat_call.code = code) => cat_call.err = {}

\* canonicalize of the first entity's own text returned the second entity,
\* whose variants have the same normalized form
C26_Witness ==
    /\ CatReturned("canonicalize")
    /\ Len(CallCanon) = 2
    /\ cat_call.s = CallCanon[1]
    /\ HoldersOf(CallVariants, normalize_text(cat_call.s)) = { 1, 2 }
    /\ cat_call.ret = { CallCanon[2] }

\* C28: the catalog operations accept the same scope ids: for an id that
\* canonical_list accepts (one whose lower-cased spelling is in the
\* catalog, such as "BR"), variants_map, all_variants_for_country and
\* canonicalize end without an error.
C28_SameIdsAccepted ==
    (/\ cat_call.op \in { "variants_map", "all_variants", "canonicalize" }
     /\ lower_code(cat_call.code) \in DOMAIN CANON_BY_COUNTRY) =>
        cat_call.err = {}

\* the id names a scope, whatever its case
KnownScope(code) == lower_code(code) \in DOMAIN CANON_BY_COUNTRY \cup Countries

\* C18: every catalog operation called with a scope id that is not in the
\* catalog fails with an error whose message names the invalid id and lists
\* the valid ids, and leaves the memoised maps as they were.
C18_UnknownScopeNamedAndListed ==
    [][ (cat_call'.op # "none" /\ ~ KnownScope(cat_call'.code)) =>
           /\ cat_call'.err # {}
           /\ \A e \in cat_call'.err :
                 e.id = cat_call'.code /\ e.supported # << >>
           /\ UNCHANGED << VARIANTS_CACHE, REVERSE_CACHE >> ]_vars

\* C8: the variant list variants_map builds for an entity contains the entity's
\* exact text, its lower-cased text and its normalized glued form (where that
\* form is not empty), and the curated extras of the entity.
C8_VariantsHoldAllForms ==
    CatReturned("variants_map") =>
        \A i \in DOMAIN CallCanon :
            /\ \A f \in Forms(CallCanon[i]) \ { << >> } : InList(f, CallVariants[i])
            /\ LET ex == ExtrasGet(ExtrasGet(EXTRA_ALIASES_BY_COUNTRY, cat_call.code),
                                   CallCanon[i])
               IN  \A n \in DOMAIN ex : InList(ex[n], CallVariants[i])

\* C9: all_variants_for_country(scope) holds no two strings equal ignoring case,
\* is in ascending order, and a repeated call returns the identical sequence.
C9_FlatListCaseInsensitiveUnique ==
    CatReturned("all_variants") =>
        /\ \A m, n \in DOMAIN cat_call.list :
              m # n => lower(cat_call.list[m]) # lower(cat_call.list[n])
        /\ \A m, n \in DOMAIN cat_call.list :
              m < n => StrLess(cat_call.list[m], cat_call.list[n])
        /\ cat_call.list = all_variants_of(CallVariants)

----------------------------------------------------------------------------
(* normalize_text on its own.                                              *)

MaxNormLen == 2   \* characters in the argument of normalize_text

\* one character or more of every class normalize_text tells apart
NormAlphabet ==
    { "a", "Z", "7", " ", ".", SmallAAcute, CapitalAAcute, CombiningAcute, TradeMark }

InitNormalize ==
    /\ flag_data = << >> /\ flag_out = {}
    /\ rank_countries = << >> /\ rank_files = << >>
    /\ rank_audit = << >> /\ rank_out = << >>
    /\ audit_cc = "" /\ written_in = << >>
    /\ req_retries = 0 /\ req_attempt = 0 /\ req_log = << >> /\ req_out = {}
    /\ fetch_countries = << >> /\ fetch_batches = 0
    /\ fetch_scope = 0 /\ fetch_batch = 0 /\ fetch_rows = << >>
    /\ fetch_files = << >> /\ fetch_failed = {} /\ fetch_status = "idle"
    /\ norm_in \in StringsUpTo(NormAlphabet, MaxNormLen)
    /\ norm_out = << >>
    /\ CANON_BY_COUNTRY = << >> /\ EXTRA_ALIASES_BY_COUNTRY = << >>
    /\ VARIANTS_CACHE = << >> /\ REVERSE_CACHE = << >>
    /\ cat_call = NoCall
    /\ agg_rows = << >> /\ agg_out = << >>
    /\ now = 0
    /\ play_cache = << >> /\ aspy_cache = << >>
    /\ play_doc = << >> /\ aspy_doc = << >>
    /\ cache_call = << >>
    /\ enriched = << >> /\ audit_row = << >>
    /\ tok_brand = << >> /\ tok_titles = << >> /\ tok_out = {}

\* normalize_text(x), then normalize_text of the result
NormalizeCall ==
    /\ Len(norm_out) < 2
    /\ norm_out' = Append(norm_out,
                          normalize_text(IF norm_out = << >> THEN norm_in
                                         ELSE norm_out[Len(norm_out)]))
    /\ UNCHANGED << norm_in, catVars, aggVars, cacheVars, auditVars, tokVars,
                    reqVars, fetchVars, scopeVars,
                    flagVars, rankVars >>

\* C10: normalize_text(normalize_text(x)) = normalize_text(x), the result holds
\* only characters of [a-z0-9], and the empty string gives the empty key.
C10_NormalizeIdempotent ==
    /\ Len(norm_out) >= 1 =>
          /\ \A n \in DOMAIN norm_out[1] : IsAZ09(norm_out[1][n])
          /\ norm_in = << >> => norm_out[1] = << >>
    /\ Len(norm_out) >= 2 => norm_out[2] = norm_out[1]

\* C10's case: an argument that normalization changes, normalized twice
C10_Witness ==
    /\ Len(norm_out) = 2
    /\ norm_out[1] # << >>
    /\ norm_out[1] # norm_in
    /\ \E n \in DOMAIN norm_in : norm_in[n] \in { SmallAAcute, CapitalAAcute }

----------------------------------------------------------------------------
(* keywordtool_fetch.py: aggregate_to_canonical.                           *)

MaxRows == 3   \* rows in the list given to aggregate_to_canonical

Str_Bet365 == << "B", "e", "t", "3", "6", "5" >>
Str_Betano == << "B", "e", "t", "a", "n", "o" >>
Str_bet365 == << "b", "e", "t", "3", "6", "5" >>
Str_unknownbrand == << "u","n","k","n","o","w","n","b","r","a","n","d" >>

\* CANON_BY_COUNTRY["ar"], its first two entries
ArCanon == uniq(<< Str_Betano, Str_Bet365 >>)

\* r["keyword"] of a row: two surface forms of one entity, another entity, and a
\* string no entity has
AggKeywords == { Str_Bet365, Str_bet365, Str_Betano, Str_unknownbrand }

\* r["search_volume"] of a row: None or a number
AggVolumes == { {}, {0}, {1}, {2} }

\* Row n of the input. The side fields are only copied by the code, never
\* read; each row carries its own position in them, so that a record shows
\* which row every one of its fields was taken from.
MakeRow(n, kw, sv) ==
    [ keyword |-> kw, language |-> { n }, search_volume |-> sv,
      cpc |-> { n }, competition |-> { n }, trend |-> { n } ]

\* x or 0
OrZero(x) == IF x = {} \/ x = {0} THEN 0 ELSE CHOOSE v \in x : TRUE

AggIndexUnseen(agg, canon) == 0

\* the position of the record of canon in agg (a dict in insertion order), or 0
AggIndex(agg, canon) ==
    IF \E n \in DOMAIN agg : agg[n].keyword = canon
    THEN CHOOSE n \in DOMAIN agg : agg[n].keyword = canon
    ELSE 0

IsGreaterOrEqual(a, b) == a >= b

\* (sv or 0) > (agg[canon]["search_volume"] or 0)
IsGreater(a, b) == a > b

\* one turn of the loop of aggregate_to_canonical, for row r
AggStep(agg, rev, r, country_code) ==
    LET canon == RevGet(rev, normalize_text(r.keyword))
        sv    == OrZero(r.search_volume)
    IN  IF canon = {} THEN agg
        ELSE LET c == CHOOSE x \in canon : TRUE
                 n == AggIndex(agg, c)
             IN  IF n = 0
                 THEN Append(agg, [ keyword |-> c, country |-> country_code,
                                    language |-> r.language, search_volume |-> { sv },
                                    cpc |-> r.cpc, competition |-> r.competition,
                                    trend |-> r.trend ])
                 ELSE IF IsGreater(sv, OrZero(agg[n].search_volume))
                 THEN [ agg EXCEPT ![n].search_volume = { sv }, ![n].cpc = r.cpc,
                                   ![n].competition = r.competition,
                                   ![n].trend = r.trend ]
                 ELSE agg

RECURSIVE AggLoop(_, _, _, _)
AggLoop(agg, rev, rows, country_code) ==
    IF rows = << >> THEN agg
    ELSE AggLoop(AggStep(agg, rev, Head(rows), country_code), rev, Tail(rows), country_code)

\* aggregate_to_canonical(rows, country_code): list(agg.values())
aggregate_to_canonical(rows, rev, country_code) == AggLoop(<< >>, rev, rows, country_code)

InitAggregate ==
    /\ flag_data = << >> /\ flag_out = {}
    /\ rank_countries = << >> /\ rank_files = << >>
    /\ rank_audit = << >> /\ rank_out = << >>
    /\ audit_cc = "" /\ written_in = << >>
    /\ req_retries = 0 /\ req_attempt = 0 /\ req_log = << >> /\ req_out = {}
    /\ fetch_countries = << >> /\ fetch_batches = 0
    /\ fetch_scope = 0 /\ fetch_batch = 0 /\ fetch_rows = << >>
    /\ fetch_files = << >> /\ fetch_failed = {} /\ fetch_status = "idle"
    /\ agg_rows = << >>
    /\ agg_out = {}
    /\ CANON_BY_COUNTRY = [ c \in { "ar" } |-> ArCanon ]
    /\ EXTRA_ALIASES_BY_COUNTRY = << >>
    /\ VARIANTS_CACHE = << >> /\ REVERSE_CACHE = << >>
    /\ cat_call = NoCall
    /\ norm_in = << >> /\ norm_out = << >>
    /\ now = 0
    /\ play_cache = << >> /\ aspy_cache = << >>
    /\ play_doc = << >> /\ aspy_doc = << >>
    /\ cache_call = << >>
    /\ enriched = << >> /\ audit_row = << >>
    /\ tok_brand = << >> /\ tok_titles = << >> /\ tok_out = {}

AggOthers == UNCHANGED << cat_call, normVars, cacheVars, auditVars, tokVars,
                    reqVars, fetchVars, scopeVars,
                    flagVars, rankVars >>

\* flatten_results hands over one more row (fetch_for_country, rows_variants)
RowArrives(kw, sv) ==
    /\ agg_out = {}
    /\ Len(agg_rows) < MaxRows
    /\ agg_rows' = Append(agg_rows, MakeRow(Len(agg_rows) + 1, kw, sv))
    /\ UNCHANGED << agg_out, CANON_BY_COUNTRY, EXTRA_ALIASES_BY_COUNTRY,
                    VARIANTS_CACHE, REVERSE_CACHE >>
    /\ AggOthers

\* rows_canon = aggregate_to_canonical(rows_variants, country_code)
AggregateCall(country_code) ==
    /\ agg_out = {}
    /\ ensure_country_built(country_code)
    /\ agg_out' = { aggregate_to_canonical(agg_rows, REVERSE_CACHE'[country_code],
                                           country_code) }
    /\ UNCHANGED agg_rows
    /\ AggOthers

AggNext ==
    \/ \E kw \in AggKeywords, sv \in AggVolumes : RowArrives(kw, sv)
    \/ AggregateCall("ar")

----------------------------------------------------------------------------
(* aggregate_to_canonical: what it promises.                               *)

AggDone == agg_out # {}
AggRecords == CHOOSE out \in agg_out : TRUE

\* the rows of the input whose keyword canonicalizes to canon
RowsOf(canon) ==
    { n \in DOMAIN agg_rows :
        RevGet(REVERSE_CACHE["ar"], normalize_text(agg_rows[n].keyword)) = { canon } }

\* the largest search_volume among these rows, None counted as 0
MaxVolume(ns) ==
    CHOOSE v \in { OrZero(agg_rows[n].search_volume) : n \in ns } :
        \A n \in ns : OrZero(agg_rows[n].search_volume) <= v

\* the first of these rows, in input order, that has the largest volume
FirstAtMax(ns) ==
    CHOOSE w \in ns :
        /\ OrZero(agg_rows[w].search_volume) = MaxVolume(ns)
        /\ \A n \in ns : OrZero(agg_rows[n].search_volume) = MaxVolume(ns) => w <= n

\* C2: the record of an entity has the maximum search_volume over the rows that
\* canonicalize to it (None compared as 0), and cpc, competition and trend of the
\* first such row, in input order, that attains the maximum.
C2_MaxVolumeFirstWinner ==
    AggDone =>
        /\ \A i \in DOMAIN ArCanon :
              RowsOf(ArCanon[i]) # {} =>
                  \E n \in DOMAIN AggRecords : AggRecords[n].keyword = ArCanon[i]
        /\ \A n \in DOMAIN AggRecords :
              LET rec == AggRecords[n]
                  ns  == RowsOf(rec.keyword)
              IN  /\ ns # {}
                  /\ rec.search_volume = { MaxVolume(ns) }
                  /\ rec.cpc = agg_rows[FirstAtMax(ns)].cpc
                  /\ rec.competition = agg_rows[FirstAtMax(ns)].competition
                  /\ rec.trend = agg_rows[FirstAtMax(ns)].trend

\* C2's case: an incumbent replaced by a greater volume, which a later row ties
\* with; a row that matches no entity is in the list too
C2_Witness ==
    /\ AggDone
    /\ \E n \in DOMAIN AggRecords :
          LET ns == RowsOf(AggRecords[n].keyword)
          IN  /\ \E a, b, c \in ns :
                    /\ a < b /\ b < c /\ FirstAtMax(ns) = b
                    /\ agg_rows[c].search_volume = agg_rows[b].search_volume
                    /\ agg_rows[a].keyword # agg_rows[b].keyword
              /\ AggRecords[n].cpc = agg_rows[FirstAtMax(ns)].cpc

\* C12: every emitted record is source-consistent: its language,
\* search_volume, cpc, competition and trend are all those of one single
\* input row of its entity (a missing volume read as 0).
C12_SourceConsistent ==
    AggDone =>
        \A n \in DOMAIN AggRecords :
            LET rec == AggRecords[n]
            IN  \E w \in RowsOf(rec.keyword) :
                    /\ rec.language = agg_rows[w].language
                    /\ rec.search_volume = { OrZero(agg_rows[w].search_volume) }
                    /\ rec.cpc = agg_rows[w].cpc
                    /\ rec.competition = agg_rows[w].competition
                    /\ rec.trend = agg_rows[w].trend

\* C13: when the winning row of an entity has no search_volume, the emitted
\* record's search_volume is unset as well, not the number 0.
C13_MissingVolumeStaysUnset ==
    AggDone =>
        \A n \in DOMAIN AggRecords :
            LET rec == AggRecords[n]
                win == FirstAtMax(RowsOf(rec.keyword))
            IN  agg_rows[win].search_volume = {} => rec.search_volume = {}

\* the row's keyword names an entity of the scope
Canonicalizes(r) == RevGet(REVERSE_CACHE["ar"], normalize_text(r.keyword)) # {}

\* C14: at most one record is emitted per canonical entity, the keyword of
\* every record is a canonical entity of the scope, and the rows whose
\* keyword does not canonicalize change no record: the result is that of
\* the list without them.
C14_OneRecordPerEntity ==
    AggDone =>
        /\ \A m, n \in DOMAIN AggRecords :
               m # n => AggRecords[m].keyword # AggRecords[n].keyword
        /\ \A n \in DOMAIN AggRecords : AggRecords[n].keyword \in SeqRange(ArCanon)
        /\ AggRecords = aggregate_to_canonical(SelectSeq(agg_rows, Canonicalizes),
                                                REVERSE_CACHE["ar"], "ar")

\* two rows of one entity under two spellings with a row of no entity
\* between them: one record, under the entity's canonical name
C14_Witness ==
    /\ AggDone
    /\ Len(agg_rows) = 3
    /\ agg_rows[1].keyword = Str_bet365
    /\ agg_rows[2].keyword = Str_unknownbrand
    /\ agg_rows[3].keyword = Str_Bet365
    /\ Len(AggRecords) = 1
    /\ AggRecords[1].keyword = Str_Bet365

----------------------------------------------------------------------------
(* niche_brand_audit.py: the two result caches.                            *)
(* A JSON value is a record [type, val]: a list holds its items, a dict    *)
(* its (key, value) pairs, null holds nothing.  A cache entry is the       *)
(* object {"ts": ..., "data": ...}; isdict is FALSE for a persisted entry  *)
(* that is not an object.  The clock counts ticks, TicksPerDay to the day, *)
(* so that ages within one day differ.                                     *)

MaxNow == 4
TicksPerDay == 2
TopN == 10

List(items) == [ type |-> "list", val |-> items ]
Dict(items) == [ type |-> "dict", val |-> items ]
Null == [ type |-> "null", val |-> << >> ]

\* Python truth value of a payload: None, [] and {} are falsy
TruthyEvenIfEmpty(p) == p.type # "null"
Truthy(p) == p.type # "null" /\ p.val # << >>
IsAnyPayload(p) == TRUE
IsList(p) == p.type = "list"
IsDictPayload(p) == p.type = "dict"

\* datetime.isoformat() and datetime.fromisoformat(): only a string that
\* isoformat() wrote parses back; fromisoformat raises on anything else
isoformat(t) == [ fmt |-> "iso", t |-> t ]
JunkTs == [ fmt |-> "junk", t |-> 0 ]
parses(ts_iso) == ts_iso.fmt = "iso"
fromisoformat(ts_iso) == ts_iso.t

\* timedelta.days: whole days, rounded down
days(delta) == delta \div TicksPerDay

\* _expired(ts_iso, ttl_days) at clock value t
expired_after_ttl(ts_iso, ttl_days, t) ==
    IF parses(ts_iso) THEN days(t - fromisoformat(ts_iso)) > ttl_days ELSE TRUE
expired(ts_iso, ttl_days, t) ==
    IF parses(ts_iso) THEN days(t - fromisoformat(ts_iso)) >= ttl_days ELSE TRUE

Entry(ts, data) == [ isdict |-> TRUE, ts |-> ts, data |-> data ]
NotADict == [ isdict |-> FALSE, ts |-> JunkTs, data |-> Null ]

\* dict.get(key): None is the empty set
Get(cache, key) == IF key \in DOMAIN cache THEN { cache[key] } ELSE {}
\* cache[key] = rec
Put(cache, key, rec) ==
    [ k \in DOMAIN cache \cup { key } |-> IF k = key THEN rec ELSE cache[k] ]
\* cache.pop(key, None)
Pop(cache, key) == [ k \in DOMAIN cache \ { key } |-> cache[k] ]

\* json.dumps on writing, json.loads on reading: a document that does not
\* parse reads as the empty mapping (_read_cache, bare except)
json_dumps(cache) == [ json |-> TRUE, of |-> cache ]
Unparsable == [ json |-> FALSE, of |-> << >> ]
read_cache(doc) == IF doc.json THEN doc.of ELSE << >>

\* hashlib.md5(f"{query}|{lang}|{cc}|{topn}").hexdigest(), taken as
\* injective on the four parts
md5_key(query, lang, cc, topn) == << query, lang, cc, topn >>

\* COUNTRIES[code]["language"]
get_country_language(code) == IF code = "ar" THEN "es" ELSE "pt"

\* what the compute function does: returns a payload, or raises
Returns(data) == [ raised |-> FALSE, data |-> data ]
Raises == [ raised |-> TRUE, data |-> Null ]

\* play_search_candidates: a list of candidates (here their appIds),
\* empty when the search failed or found nothing
PlayOutcomes ==
    { Returns(List(<< >>)), Returns(List(<< "app1" >>)),
      Returns(List(<< "app2", "app1" >>)) }

\* aspy_enrich: always the dict {"daily": ..., "banned": ...}, both None
\* when no source answered; or an exception out of the fallback branch
AspyMeta(daily, banned) == Dict(<< << "daily", daily >>, << "banned", banned >> >>)
AspyOutcomes ==
    { Returns(AspyMeta({}, {})), Returns(AspyMeta({ 5 }, { FALSE })), Raises }

TtlChoices == { 1, 2 }
AuditCountries == { "ar", "br" }
AppIds == { "app1" }

\* what .cache/play_search.json may hold for the key of ("Betano", "ar")
\* when the process starts, written at tick 0
PlayDiskEntries ==
    { Entry(isoformat(0), List(<< "app1" >>)), Entry(isoformat(0), List(<< >>)),
      Entry(isoformat(0), Null), Entry(JunkTs, List(<< "app1" >>)),
      Entry(isoformat(0), AspyMeta({}, {})), NotADict }
PlayDiskDocs ==
    { json_dumps(<< >>), Unparsable }
    \cup { json_dumps(Put(<< >>, md5_key("Betano", "es", "ar", TopN), e)) :
             e \in PlayDiskEntries }

\* what .cache/aspy_meta.json may hold for "app1"
AspyDiskEntries ==
    { Entry(isoformat(0), AspyMeta({ 5 }, { FALSE })), Entry(isoformat(0), Dict(<< >>)),
      Entry(isoformat(0), Null), Entry(JunkTs, AspyMeta({ 5 }, { FALSE })),
      Entry(isoformat(0), List(<< "app1" >>)), NotADict }
AspyDiskDocs ==
    { json_dumps(<< >>), Unparsable }
    \cup { json_dumps(Put(<< >>, "app1", e)) : e \in AspyDiskEntries }

NoCacheCall ==
    [ op |-> "none", key |-> << >>, ttl |-> 0, computed |-> FALSE,
      raised |-> FALSE, ret |-> Null, prev |-> {} ]

InitCache ==
    /\ flag_data = << >> /\ flag_out = {}
    /\ rank_countries = << >> /\ rank_files = << >>
    /\ rank_audit = << >> /\ rank_out = << >>
    /\ audit_cc = "" /\ written_in = << >>
    /\ req_retries = 0 /\ req_attempt = 0 /\ req_log = << >> /\ req_out = {}
    /\ fetch_countries = << >> /\ fetch_batches = 0
    /\ fetch_scope = 0 /\ fetch_batch = 0 /\ fetch_rows = << >>
    /\ fetch_files = << >> /\ fetch_failed = {} /\ fetch_status = "idle"
    /\ now = 0
    /\ play_doc \in PlayDiskDocs
    /\ aspy_doc \in AspyDiskDocs
    /\ play_cache = read_cache(play_doc)
    /\ aspy_cache = read_cache(aspy_doc)
    /\ cache_call = NoCacheCall
    /\ CANON_BY_COUNTRY = << >> /\ EXTRA_ALIASES_BY_COUNTRY = << >>
    /\ VARIANTS_CACHE = << >> /\ REVERSE_CACHE = << >>
    /\ cat_call = NoCall
    /\ norm_in = << >> /\ norm_out = << >>
    /\ agg_rows = << >> /\ agg_out = {}
    /\ enriched = << >> /\ audit_row = << >>
    /\ tok_brand = << >> /\ tok_titles = << >> /\ tok_out = {}

CacheOthers == UNCHANGED << catVars, normVars, aggVars, auditVars, tokVars,
                    reqVars, fetchVars, scopeVars,
                    flagVars, rankVars >>

\* _now() moves on; the lookup that was last made is then in the past
ClockTick ==
    /\ now < MaxNow
    /\ now' = now + 1
    /\ cache_call' = NoCacheCall
    /\ UNCHANGED << play_cache, aspy_cache, play_doc, aspy_doc >>
    /\ CacheOthers

\* the lookup at the head of both functions: the record is usable when it
\* is an object whose timestamp has not expired
usable(rec, ttl_days, t) ==
    /\ rec # {}
    /\ \A r \in rec : r.isdict /\ ~ expired(r.ts, ttl_days, t)

\* the mapping once the compute function has returned data
after_compute(cache, key, data, t) ==
    IF Truthy(data) THEN Put(cache, key, Entry(isoformat(t), data))
                    ELSE Pop(cache, key)

\* a hit that stamps the entry with the time of the lookup
hit_refreshing(cache, key, t) ==
    Put(cache, key, [ cache[key] EXCEPT !.ts = isoformat(t) ])

\* the mapping after a hit: `return data`, nothing is assigned
after_hit(cache, key, t) == cache

\* play_search_cached(query, lang, cc, topn, ttl_days); outcome is what
\* play_search_candidates does if it is called
play_search_cached(query, lang, cc, topn, ttl_days, outcome) ==
    LET key == md5_key(query, lang, cc, topn)
        rec == Get(play_cache, key)
        live == usable(rec, ttl_days, now)
        hit == live /\ \A r \in rec : IsList(r.data) /\ Truthy(r.data)
        looked == IF live /\ ~ hit THEN Pop(play_cache, key) ELSE play_cache
        call == [ op |-> "play", key |-> key, ttl |-> ttl_days, prev |-> rec,
                  computed |-> ~ hit, raised |-> ~ hit /\ outcome.raised,
                  ret |-> Null ]
    IN  IF hit
        THEN /\ cache_call' = [ call EXCEPT !.ret = (CHOOSE r \in rec : TRUE).data ]
             /\ play_cache' = after_hit(play_cache, key, now)
             /\ UNCHANGED play_doc
        ELSE IF outcome.raised
        THEN /\ cache_call' = call
             /\ play_cache' = looked
             /\ UNCHANGED play_doc
        ELSE /\ cache_call' = [ call EXCEPT !.ret = outcome.data ]
             /\ play_cache' = after_compute(looked, key, outcome.data, now)
             /\ play_doc' = json_dumps(play_cache')

\* aspy_enrich_cached(app_id, session, ttl_days); outcome is what
\* aspy_enrich does if it is called
aspy_enrich_cached(app_id, ttl_days, outcome) ==
    LET rec == Get(aspy_cache, app_id)
        live == usable(rec, ttl_days, now)
        hit == live /\ \A r \in rec : IsDictPayload(r.data) /\ Truthy(r.data)
        looked == IF live /\ ~ hit THEN Pop(aspy_cache, app_id) ELSE aspy_cache
        call == [ op |-> "aspy", key |-> << app_id >>, ttl |-> ttl_days, prev |-> rec,
                  computed |-> ~ hit, raised |-> ~ hit /\ outcome.raised,
                  ret |-> Null ]
    IN  IF hit
        THEN /\ cache_call' = [ call EXCEPT !.ret = (CHOOSE r \in rec : TRUE).data ]
             /\ aspy_cache' = after_hit(aspy_cache, app_id, now)
             /\ UNCHANGED aspy_doc
        ELSE IF outcome.raised
        THEN /\ cache_call' = call
             /\ aspy_cache' = looked
             /\ UNCHANGED aspy_doc
        ELSE /\ cache_call' = [ call EXCEPT !.ret = outcome.data ]
             /\ aspy_cache' = after_compute(looked, app_id, outcome.data, now)
             /\ aspy_doc' = json_dumps(aspy_cache')

\* candidates = play_search_cached(kw, lang, country_code, topn, cache_ttl_days)
PlaySearchCached(cc, ttl_days, outcome) ==
    /\ play_search_cached("Betano", get_country_language(cc), cc, TopN, ttl_days, outcome)
    /\ UNCHANGED << now, aspy_cache, aspy_doc >>
    /\ CacheOthers

\* meta = aspy_enrich_cached(c["appId"], sess, cache_ttl_days)
AspyEnrichCached(app_id, ttl_days, outcome) ==
    /\ aspy_enrich_cached(app_id, ttl_days, outcome)
    /\ UNCHANGED << now, play_cache, play_doc >>
    /\ CacheOthers

CacheNext ==
    \/ ClockTick
    \/ \E cc \in AuditCountries, ttl_days \in TtlChoices, outcome \in PlayOutcomes :
          PlaySearchCached(cc, ttl_days, outcome)
    \/ \E app_id \in AppIds, ttl_days \in TtlChoices, outcome \in AspyOutcomes :
          AspyEnrichCached(app_id, ttl_days, outcome)

----------------------------------------------------------------------------
(* Claims about the caches.  cache_call describes the lookup that was just *)
(* made (the clock has not moved since): prev is the entry it found.       *)

Looked == cache_call.op # "none"
Returned == Looked /\ ~ cache_call.raised
Served == Returned /\ ~ cache_call.computed

\* the entry now stored under the key of the last lookup
EntryNow ==
    IF cache_call.op = "play" THEN Get(play_cache, cache_call.key)
    ELSE IF cache_call.op = "aspy" THEN Get(aspy_cache, cache_call.key[1])
    ELSE {}

IsEmptyPayload(p) == p.type = "null" \/ p.val = << >>
HeldEmptyPayload(rec) == rec # {} /\ \A r \in rec : r.isdict /\ IsEmptyPayload(r.data)

\* C3: for both caches, a payload served from the cache is never empty or
\* None; when the compute function returns an empty payload the caller gets
\* it and no entry is left under the key; and a lookup that finds a stored
\* entry with an empty payload invokes the compute function and, once that
\* has returned, leaves either no entry or a fresh non-empty one.  The
\* documents never receive an entry with an empty payload: one that holds
\* such an entry found it there at start (written at tick 0).
C3_NoEmptyPayloadKept ==
    /\ Served => ~ IsEmptyPayload(cache_call.ret)
    /\ (Returned /\ cache_call.computed /\ IsEmptyPayload(cache_call.ret)) => EntryNow = {}
    /\ (Looked /\ HeldEmptyPayload(cache_call.prev)) => cache_call.computed
    /\ (Returned /\ HeldEmptyPayload(cache_call.prev)) =>
          \A e \in EntryNow :
             /\ ~ IsEmptyPayload(e.data)
             /\ e.data = cache_call.ret
             /\ e.ts = isoformat(now)
    /\ \A k \in DOMAIN play_doc.of : ~ play_doc.of[k].isdict
          \/ ~ IsEmptyPayload(play_doc.of[k].data)
          \/ play_doc.of[k].ts = isoformat(0)
    /\ \A k \in DOMAIN aspy_doc.of : ~ aspy_doc.of[k].isdict
          \/ ~ IsEmptyPayload(aspy_doc.of[k].data)
          \/ aspy_doc.of[k].ts = isoformat(0)

\* the compute function returned an empty list for a key whose stored entry,
\* still within its TTL, was empty as well: the entry is gone
C3_Witness ==
    /\ cache_call.op = "play" /\ Returned /\ cache_call.computed
    /\ HeldEmptyPayload(cache_call.prev)
    /\ \A r \in cache_call.prev : r.ts = isoformat(0)
    /\ now < TicksPerDay * cache_call.ttl
    /\ cache_call.ret = List(<< >>)
    /\ EntryNow = {}
    /\ cache_call.key \notin DOMAIN play_doc.of

\* a stored entry that could be served: an object with a timestamp that
\* parses and a non-empty payload of the cache's type
Servable(rec, kind) ==
    /\ rec # {}
    /\ \A r \in rec : /\ r.isdict /\ r.ts.fmt = "iso"
                      /\ r.data.type = kind /\ ~ IsEmptyPayload(r.data)
PrevServable ==
    \/ cache_call.op = "play" /\ Servable(cache_call.prev, "list")
    \/ cache_call.op = "aspy" /\ Servable(cache_call.prev, "dict")
PrevAge == now - (CHOOSE r \in cache_call.prev : TRUE).ts.t

\* C4: a lookup that finds a non-empty payload stored at time t returns that
\* payload without invoking the compute function while fewer than ttl_days
\* whole days have passed since t, leaving the entry as it was; from then on
\* it invokes the compute function and, once that has returned, the entry
\* holds the computed payload with the current time (or is gone if the
\* computed payload is empty).
C4_ServedUntilTtlThenRecomputed ==
    PrevServable =>
       /\ PrevAge < TicksPerDay * cache_call.ttl =>
             /\ Served
             /\ \A r \in cache_call.prev : cache_call.ret = r.data
             /\ EntryNow = cache_call.prev
       /\ PrevAge >= TicksPerDay * cache_call.ttl =>
             /\ cache_call.computed
             /\ Returned =>
                   EntryNow = IF IsEmptyPayload(cache_call.ret) THEN {}
                              ELSE { Entry(isoformat(now), cache_call.ret) }

\* an entry is recomputed at the first tick of the day on which its age
\* reaches the TTL, having been stored by this process
C4_Witness ==
    /\ cache_call.op = "play" /\ PrevServable
    /\ PrevAge = TicksPerDay * cache_call.ttl
    /\ \A r \in cache_call.prev : r.ts.t > 0 /\ r.data # cache_call.ret
    /\ Returned /\ cache_call.computed
    /\ EntryNow = { Entry(isoformat(now), cache_call.ret) }
    /\ ~ IsEmptyPayload(cache_call.ret)

\* the result of an enrichment in which no source gave a signal
NoSignal == AspyMeta({}, {})

\* C17: an enrichment result without any signal (installs per day and ban
\* flag both None) is never remembered by aspy_enrich_cached: no entry
\* holds it, and no call is served it from the cache.
C17_NoSignalNotRemembered ==
    /\ \A k \in DOMAIN aspy_cache : aspy_cache[k].data # NoSignal
    /\ (cache_call.op = "aspy" /\ Served) => cache_call.ret # NoSignal

\* a stored entry that is malformed: not an object, or with a timestamp
\* that is missing or does not parse, or with a payload that is not of the
\* cache's type
Malformed(rec, kind) ==
    /\ rec # {}
    /\ \A r \in rec : \/ ~ r.isdict
                      \/ r.ts.fmt # "iso"
                      \/ r.data.type \notin { kind, "null" }
PrevMalformed ==
    \/ cache_call.op = "play" /\ Malformed(cache_call.prev, "list")
    \/ cache_call.op = "aspy" /\ Malformed(cache_call.prev, "dict")

\* a lookup found a malformed entry: it is a miss, the compute function is
\* invoked, and once that has returned the malformed entry is gone (the
\* key has no entry, or a fresh one with the computed payload)
MalformedEntryIsMiss ==
    PrevMalformed =>
       /\ cache_call.computed
       /\ Returned =>
             EntryNow = IF IsEmptyPayload(cache_call.ret) THEN {}
                        ELSE { Entry(isoformat(now), cache_call.ret) }

\* a lookup in a cache whose document did not parse: it finds nothing, and
\* fails only if the compute function does
UnparsableDocIsMiss ==
    /\ (play_doc = Unparsable /\ cache_call'.op = "play" /\ cache_call' # cache_call) =>
          cache_call'.prev = {} /\ cache_call'.computed /\ ~ cache_call'.raised
    /\ (aspy_doc = Unparsable /\ cache_call'.op = "aspy" /\ cache_call' # cache_call) =>
          cache_call'.prev = {} /\ cache_call'.computed

\* C20: a persisted document that fails to parse, or a persisted entry that
\* is malformed, never makes a cached lookup fail: the lookup is a miss, the
\* value is recomputed, and the malformed entry is no longer in the cache
\* after the call.
C20_MalformedIsMiss ==
    /\ [] MalformedEntryIsMiss
    /\ [][UnparsableDocIsMiss]_vars

\* a lookup found an entry whose timestamp does not parse and left a fresh
\* entry in its place
C20_Witness ==
    /\ cache_call.op = "play" /\ Returned
    /\ \E r \in cache_call.prev : r.isdict /\ r.ts = JunkTs
    /\ EntryNow = { Entry(isoformat(now), cache_call.ret) }
    /\ now > 0

\* a step that ends in a hit leaves both mappings and both documents as
\* they were
HitChangesNothing ==
    (cache_call'.op # "none" /\ ~ cache_call'.computed) =>
       UNCHANGED << play_cache, aspy_cache, play_doc, aspy_doc >>

\* what a hit serves is a stored payload younger than the TTL, counted
\* from the timestamp of the entry; an older one is computed again
HitWithinTtlOfStorage ==
    /\ Served =>
          /\ PrevServable
          /\ PrevAge < TicksPerDay * cache_call.ttl
          /\ \A r \in cache_call.prev : cache_call.ret = r.data
          /\ EntryNow = cache_call.prev
    /\ (Looked /\ PrevServable /\ PrevAge >= TicksPerDay * cache_call.ttl) =>
          cache_call.computed

\* C30: a cache hit changes nothing: the compute function is not invoked,
\* the entry keeps its timestamp and payload, and every other entry and
\* both documents stay as they were; hence a hit does not extend the life
\* of an entry, which is computed again at the first lookup at which its
\* age since it was stored reaches the TTL.
C30_HitChangesNothing ==
    [] HitWithinTtlOfStorage /\ [][HitChangesNothing]_vars

\* a hit on an entry stored one tick earlier, with a second entry beside it
C30_Witness ==
    /\ cache_call.op = "play" /\ Served
    /\ PrevAge = 1
    /\ EntryNow = cache_call.prev
    /\ Cardinality(DOMAIN play_cache) = 2

\* the document and the mapping of the cache the last lookup was made in
DocOfCall == IF cache_call.op = "play" THEN play_doc ELSE aspy_doc
CacheOfCall == IF cache_call.op = "play" THEN play_cache ELSE aspy_cache

\* C25: when a call of play_search_cached or aspy_enrich_cached has ended,
\* by returning or by an error raised from the compute function, the
\* document of its cache reads back as exactly the in-memory mapping (a
\* document that does not parse reads as the empty mapping).
C25_DocumentEqualsMemory ==
    Looked => read_cache(DocOfCall) = CacheOfCall

----------------------------------------------------------------------------
(* niche_brand_audit.py, _extract_banned_flag.  A payload is a JSON        *)
(* object: bools holds its keys whose value is a boolean, status the value *)
(* of "status" when it is a string, subs its keys whose value is an        *)
(* object.  Keys with values of other types are not signals anywhere in    *)
(* the function and are left out.                                          *)

Payload(bools, status, subs) == [ bools |-> bools, status |-> status, subs |-> subs ]

\* the keys of the four loops, in the order of the code
DirectKeys == << "is_banned", "banned", "removed", "suspended", "unpublished", "deleted" >>
NewKeys == << "published", "listing_visible" >>
NestedKeys == << "summary", "metrics", "app", "details" >>
ExplicitKeys == << "is_published", "is_available" >>

StatusMarkers ==
    { << "b","a","n","n","e","d" >>,
      << "r","e","m","o","v","e","d" >>,
      << "s","u","s","p","e","n","d","e","d" >>,
      << "u","n","p","u","b","l","i","s","h","e","d" >>,
      << "d","e","l","e","t","e","d" >>,
      << "n","o","t"," ","a","v","a","i","l","a","b","l","e" >>,
      << "t","e","r","m","i","n","a","t","e","d" >> }

\* for k in keys: v = data.get(k); if isinstance(v, bool): the first such k
FirstBoolKey(data, keys) ==
    LET I == { i \in DOMAIN keys : keys[i] \in DOMAIN data.bools }
    IN  IF I = {} THEN {} ELSE { keys[CHOOSE i \in I : \A j \in I : i <= j] }

\* str(data.get("status", "")).lower()
status_text(data) == IF data.status = {} THEN << >> ELSE lower(CHOOSE t \in data.status : TRUE)

RECURSIVE extract_banned_flag(_)
RECURSIVE nested_flag(_, _)
\* for top in ("summary", "metrics", "app", "details"), from the i-th on
nested_flag(data, i) ==
    IF i > Len(NestedKeys) THEN {}
    ELSE IF NestedKeys[i] \in DOMAIN data.subs
            /\ extract_banned_flag(data.subs[NestedKeys[i]]) # {}
    THEN extract_banned_flag(data.subs[NestedKeys[i]])
    ELSE nested_flag(data, i + 1)

\* _extract_banned_flag(data): None is {}, True { TRUE }, False { FALSE }
extract_banned_flag(data) ==
    IF \E i \in DOMAIN DirectKeys :
          DirectKeys[i] \in DOMAIN data.bools /\ data.bools[DirectKeys[i]]
    THEN { TRUE }
    ELSE IF FirstBoolKey(data, NewKeys) # {}
    THEN { ~ data.bools[CHOOSE k \in FirstBoolKey(data, NewKeys) : TRUE] }
    ELSE IF \E x \in StatusMarkers : IsSubstring(x, status_text(data))
    THEN { TRUE }
    ELSE IF nested_flag(data, 1) # {}
    THEN nested_flag(data, 1)
    ELSE IF FirstBoolKey(data, ExplicitKeys) # {}
    THEN { ~ data.bools[CHOOSE k \in FirstBoolKey(data, ExplicitKeys) : TRUE] }
    ELSE {}

\* the payloads of the model: the booleans of a direct, a new and an
\* explicit key, a status text, and sub-objects up to two levels deep
Str_Removed_by_Google == << "R","e","m","o","v","e","d"," ","b","y"," ","G","o","o","g","l","e" >>
Str_live == << "l","i","v","e" >>
NoBools == << >>
OneBool(k, b) == [ x \in { k } |-> b ]
BoolChoices(k) == { NoBools } \cup { OneBool(k, b) : b \in BOOLEAN }
Merge(f, g) == [ x \in DOMAIN f \cup DOMAIN g |-> IF x \in DOMAIN f THEN f[x] ELSE g[x] ]
OneSub(k, p) == [ x \in { k } |-> p ]

LeafPayloads ==
    { Payload(b, {}, << >>) :
         b \in BoolChoices("is_banned") \cup BoolChoices("published")
               \cup BoolChoices("is_available") }
    \cup { Payload(NoBools, { Str_Removed_by_Google }, << >>) }
InnerPayloads ==
    LeafPayloads \cup { Payload(NoBools, {}, OneSub("details", p)) : p \in LeafPayloads }
SubChoices == { << >> } \cup { OneSub("summary", p) : p \in InnerPayloads }
FlagPayloads ==
    { Payload(Merge(Merge(d, n), e), st, subs) :
         d \in BoolChoices("is_banned"), n \in BoolChoices("published"),
         e \in BoolChoices("is_published"),
         st \in { {}, { Str_Removed_by_Google }, { Str_live } },
         subs \in SubChoices }

----------------------------------------------------------------------------
(* niche_brand_audit.py, audit_country_all_brands: the competitor of one   *)
(* brand is chosen among its enriched candidates.                          *)

MaxCandidates == 3

\* meta.get("daily"), meta.get("banned"): None is the empty set
DailyChoices == { {}, { 0 }, { 50 }, { 200 } }

\* the AppstoreSpy card of a candidate: None (the empty set) when no key is
\* configured or the request failed, else the payload of the answer
CardChoices ==
    { {},
      { Payload(NoBools, { Str_live }, << >>) },
      { Payload(OneBool("is_banned", TRUE), {}, << >>) },
      { Payload(OneBool("published", TRUE), {}, << >>) } }

\* aspy_enrich: b = _extract_banned_flag(data); if b is not None:
\* out["banned"] = bool(b)
aspy_banned(card) ==
    IF card = {} THEN {} ELSE extract_banned_flag(CHOOSE d \in card : TRUE)

\* enriched.append({**c, "daily": daily, "banned": banned}); the n-th
\* candidate of the search has appId and title ("app", n); card is the
\* answer its ban flag was read from
Candidate(n, daily, banned, card) ==
    [ appId |-> << "app", n >>, title |-> << "app", n >>,
      daily |-> daily, banned |-> banned, card |-> card ]

ValueOf(opt) == CHOOSE v \in opt : TRUE

\* non_null = [x for x in enriched if x["daily"] is not None]
HasDaily(x) == x.daily # {}
non_null(cands) == SelectSeq(cands, HasDaily)

\* max(non_null, key=lambda x: x["daily"]): the running best is replaced
\* only by an item whose key is greater, so the first maximum stays
KeyReaches(a, b) == a >= b
KeyExceeds(a, b) == a > b
RECURSIVE MaxFrom(_, _, _)
MaxFrom(items, i, best) ==
    IF i > Len(items) THEN best
    ELSE MaxFrom(items, i + 1,
                 IF KeyExceeds(ValueOf(items[i].daily), ValueOf(best.daily))
                 THEN items[i] ELSE best)
max_by_daily(items) == MaxFrom(items, 2, items[1])

\* top = None; if enriched: top = max(...) if non_null else enriched[0]
top_of(cands) ==
    IF cands = << >> THEN {}
    ELSE IF non_null(cands) # << >> THEN { max_by_daily(non_null(cands)) }
    ELSE { cands[1] }

\* the competitor columns of the row: "" is the empty sequence, and an
\* empty "installs per day" cell is the empty set
row_of(top) ==
    IF top = {}
    THEN [ comp_app_id |-> << >>, comp_title |-> << >>, comp_daily |-> {},
           comp_banned |-> {} ]
    ELSE LET t == ValueOf(top)
         IN  [ comp_app_id |-> t.appId, comp_title |-> t.title,
               comp_daily |-> t.daily, comp_banned |-> t.banned ]

\* the cells of the CSV: a text or a number; "Da" and "Net" stand for the
\* Cyrillic words U+0414 U+0430 (yes) and U+041D U+0435 U+0442 (no)
TextCell(t) == [ text |-> t, num |-> {} ]
NumCell(n) == [ text |-> "", num |-> { n } ]
Blank == TextCell("")

\* int(x["daily"]) if isinstance(x["daily"], (int, float)) else unset
daily_cell(daily, unset) ==
    IF daily = {} THEN TextCell(unset) ELSE NumCell(ValueOf(daily))

\* a flag that is None written as "no"
flag_cell_defaulting(banned, unset) ==
    IF banned = { TRUE } THEN TextCell("Da") ELSE TextCell("Net")

\* "Da" if flag is True, "Net" if it is False, else unset
flag_cell(banned, unset) ==
    IF banned = { TRUE } THEN TextCell("Da")
    ELSE IF banned = { FALSE } THEN TextCell("Net")
    ELSE TextCell(unset)

\* parts.append(f"{ci['title']}::{di}::{bn}"); bundle = "; ".join(parts), or
\* "-" when there is no candidate
bundle_of(cands) ==
    IF cands = << >> THEN << TextCell("-") >>
    ELSE [ i \in DOMAIN cands |->
             [ title |-> cands[i].title, di |-> daily_cell(cands[i].daily, "-"),
               bn |-> flag_cell(cands[i].banned, "?") ] ]

\* the cells "installs per day", "competitor banned" and the summary of
\* the candidates
cells_of(top, cands) ==
    [ cell_daily |-> IF top = {} THEN Blank ELSE daily_cell(ValueOf(top).daily, ""),
      cell_banned |-> IF top = {} THEN Blank ELSE flag_cell(ValueOf(top).banned, ""),
      bundle |-> bundle_of(cands) ]

InitAudit ==
    /\ flag_data = << >> /\ flag_out = {}
    /\ rank_countries = << >> /\ rank_files = << >>
    /\ rank_audit = << >> /\ rank_out = << >>
    /\ audit_cc = "" /\ written_in = << >>
    /\ req_retries = 0 /\ req_attempt = 0 /\ req_log = << >> /\ req_out = {}
    /\ fetch_countries = << >> /\ fetch_batches = 0
    /\ fetch_scope = 0 /\ fetch_batch = 0 /\ fetch_rows = << >>
    /\ fetch_files = << >> /\ fetch_failed = {} /\ fetch_status = "idle"
    /\ enriched = << >>
    /\ audit_row = {}
    /\ CANON_BY_COUNTRY = << >> /\ EXTRA_ALIASES_BY_COUNTRY = << >>
    /\ VARIANTS_CACHE = << >> /\ REVERSE_CACHE = << >>
    /\ cat_call = NoCall
    /\ norm_in = << >> /\ norm_out = << >>
    /\ agg_rows = << >> /\ agg_out = {}
    /\ now = 0
    /\ play_cache = << >> /\ aspy_cache = << >>
    /\ play_doc = << >> /\ aspy_doc = << >>
    /\ cache_call = << >>
    /\ tok_brand = << >> /\ tok_titles = << >> /\ tok_out = {}

AuditOthers == UNCHANGED << catVars, normVars, aggVars, cacheVars, tokVars,
                    reqVars, fetchVars, scopeVars,
                    flagVars, rankVars >>

\* one more candidate of the brand has been enriched
CandidateEnriched(daily, card) ==
    /\ audit_row = {}
    /\ Len(enriched) < MaxCandidates
    /\ card = {} => daily = {}
    /\ enriched' = Append(enriched, Candidate(Len(enriched) + 1, daily,
                                               aspy_banned(card), card))
    /\ UNCHANGED audit_row
    /\ AuditOthers

\* the competitor is chosen and the row of the brand is written
SelectCompetitor ==
    /\ audit_row = {}
    /\ audit_row' = { row_of(top_of(enriched)) @@ cells_of(top_of(enriched), enriched) }
    /\ UNCHANGED enriched
    /\ AuditOthers

AuditNext ==
    \/ \E daily \in DailyChoices, card \in CardChoices :
          CandidateEnriched(daily, card)
    \/ SelectCompetitor

----------------------------------------------------------------------------
(* Claims about the competitor selection.                                  *)

Selected == audit_row # {}
SelectedRow == CHOOSE r \in audit_row : TRUE
WithDaily == { i \in DOMAIN enriched : enriched[i].daily # {} }
MaxDaily ==
    CHOOSE d \in { ValueOf(enriched[i].daily) : i \in WithDaily } :
       \A i \in WithDaily : ValueOf(enriched[i].daily) <= d
FirstWithMaxDaily ==
    CHOOSE i \in WithDaily :
       /\ enriched[i].daily = { MaxDaily }
       /\ \A j \in WithDaily : enriched[j].daily = { MaxDaily } => i <= j

\* C5: for a non-empty list of enriched candidates the competitor is the
\* first candidate, in input order, whose installs per day equal the
\* maximum over the candidates that have one; when none has one it is the
\* first candidate; a non-empty list always yields a competitor.
C5_FirstMaxOrFirst ==
    (Selected /\ enriched # << >>) =>
       /\ SelectedRow.comp_app_id # << >>
       /\ WithDaily # {} =>
             /\ SelectedRow.comp_app_id = enriched[FirstWithMaxDaily].appId
             /\ SelectedRow.comp_daily = { MaxDaily }
       /\ WithDaily = {} =>
             /\ SelectedRow.comp_app_id = enriched[1].appId
             /\ SelectedRow.comp_daily = {}

\* the first candidate has no installs figure, the second and third tie
\* at the maximum: the second is chosen
C5_Witness ==
    /\ Selected /\ Len(enriched) = 3
    /\ enriched[1].daily = {}
    /\ enriched[2].daily = { 200 } /\ enriched[3].daily = { 200 }
    /\ SelectedRow.comp_app_id = << "app", 2 >>

\* the candidate the row was made from
SelectedCandidate == enriched[SelectedRow.comp_app_id[2]]

\* the card is missing, or holds no signal at any depth
RECURSIVE HasSignal(_)
HasSignal(data) ==
    \/ \E k \in { DirectKeys[i] : i \in DOMAIN DirectKeys }
               \cup { NewKeys[i] : i \in DOMAIN NewKeys }
               \cup { ExplicitKeys[i] : i \in DOMAIN ExplicitKeys } : k \in DOMAIN data.bools
    \/ \E t \in data.status : \E x \in StatusMarkers : IsSubstring(x, lower(t))
    \/ \E k \in DOMAIN data.subs : HasSignal(data.subs[k])
NoBanSignal(card) == \A d \in card : ~ HasSignal(d)

\* C21: in the row of a brand, the cells of the chosen competitor are
\* blank, never 0 or "no", when its installs per day or its ban flag is
\* None; in the summary of the candidates such a figure is "-" and such a
\* flag "?"; and a candidate without a card, or whose card holds no
\* recognised signal, has the flag None and is written so.
C21_UnknownStaysUnset ==
    (Selected /\ enriched # << >>) =>
       /\ SelectedCandidate.daily = {} => SelectedRow.cell_daily = Blank
       /\ SelectedCandidate.banned = {} => SelectedRow.cell_banned = Blank
       /\ NoBanSignal(SelectedCandidate.card) => SelectedRow.cell_banned = Blank
       /\ \A i \in DOMAIN enriched :
             /\ enriched[i].daily = {} => SelectedRow.bundle[i].di = TextCell("-")
             /\ enriched[i].banned = {} => SelectedRow.bundle[i].bn = TextCell("?")
             /\ NoBanSignal(enriched[i].card) =>
                   /\ enriched[i].banned = {}
                   /\ SelectedRow.bundle[i].bn = TextCell("?")

\* the first candidate has a card without a signal and no installs figure,
\* the second has no card: the first is chosen and every cell is unset
C21_Witness ==
    /\ Selected /\ Len(enriched) = 2
    /\ enriched[1].card = { Payload(NoBools, { Str_live }, << >>) }
    /\ enriched[1].daily = {}
    /\ enriched[2].card = {}
    /\ SelectedRow.cell_daily = Blank /\ SelectedRow.cell_banned = Blank
    /\ SelectedRow.bundle[1].bn = TextCell("?")
    /\ SelectedRow.bundle[2].di = TextCell("-")
----------------------------------------------------------------------------
(* niche_brand_audit.py: is the brand mentioned in one of the app titles.  *)

MaxTitles == 2

\* re.findall(r"[a-z0-9]+", s): the maximal runs of [a-z0-9], left to right
RECURSIVE findall_from(_, _, _)
findall_from(s, i, run) ==
    LET closed == IF run = << >> THEN << >> ELSE << run >>
    IN  IF i > Len(s) THEN closed
        ELSE IF IsAZ09(s[i]) THEN findall_from(s, i + 1, Append(run, s[i]))
        ELSE closed \o findall_from(s, i + 1, << >>)
findall_alnum(s) == findall_from(s, 1, << >>)

\* the condition len(t) >= 3 of the comprehension
KeptToken(t) == Len(t) >= 3

\* _normalize_tokens(s)
normalize_tokens(s) ==
    SelectSeq(findall_alnum(SelectSeq(NFKD(strip(lower(s))), NotCombining)), KeptToken)

\* bt in t_tokens
TokenInsideSome(bt, t_tokens) == \E t \in t_tokens : IsSubstring(bt, t)
TokenIn(bt, t_tokens) == bt \in t_tokens

\* the body of the loop for one title: does this title mention the brand
title_matches(b_tokens, t) ==
    LET t_tokens == SeqRange(normalize_tokens(t))
        inter == { bt \in SeqRange(b_tokens) : TokenIn(bt, t_tokens) }
    IN  /\ t_tokens # {}
        /\ \/ \E i \in DOMAIN b_tokens :
                 Len(b_tokens[i]) >= 4 /\ TokenIn(b_tokens[i], t_tokens)
           \/ Len(b_tokens) >= 2 /\ Cardinality(inter) >= 2

\* any_brand_in_title(brand, titles)
any_brand_in_title(brand, titles) ==
    LET b_tokens == normalize_tokens(brand)
    IN  IF b_tokens = << >> \/ (Len(b_tokens) = 1 /\ Len(b_tokens[1]) < 4)
        THEN FALSE
        ELSE \E i \in DOMAIN titles : title_matches(b_tokens, titles[i])

Str_LV_BET == << "L","V"," ","B","E","T" >>
Str_LVX_BET == << "L","V","X"," ","B","E","T" >>
Str_PIN == << "P","I","N" >>
Str_LV_BET_Casino == << "L","V"," ","B","E","T"," ","C","a","s","i","n","o" >>
Str_Pinnacle_Sports ==
    << "P","i","n","n","a","c","l","e"," ","S","p","o","r","t","s" >>
Str_Bet365_App == << "B","e","t","3","6","5"," ","A","p","p" >>
Str_Bet365app == << "B","e","t","3","6","5","a","p","p" >>
Str_Pin == << "P","i","n" >>
Str_lvx_bet == << "l","v","x","-","b","e","t" >>
Str_Betano_accent == << " ","B","e","t",SmallAAcute,"n","o","." >>

\* brands as the catalog spells them, titles as the Keyapp account lists them
TokBrands == { Str_LV_BET, Str_LVX_BET, Str_PIN, Str_bet365, Str_Betano }
TokTitles ==
    { Str_LV_BET_Casino, Str_Pinnacle_Sports, Str_Bet365_App, Str_Bet365app,
      Str_Pin, Str_lvx_bet, Str_Betano_accent }

InitToken ==
    /\ flag_data = << >> /\ flag_out = {}
    /\ rank_countries = << >> /\ rank_files = << >>
    /\ rank_audit = << >> /\ rank_out = << >>
    /\ audit_cc = "" /\ written_in = << >>
    /\ req_retries = 0 /\ req_attempt = 0 /\ req_log = << >> /\ req_out = {}
    /\ fetch_countries = << >> /\ fetch_batches = 0
    /\ fetch_scope = 0 /\ fetch_batch = 0 /\ fetch_rows = << >>
    /\ fetch_files = << >> /\ fetch_failed = {} /\ fetch_status = "idle"
    /\ tok_brand \in TokBrands
    /\ tok_titles = << >>
    /\ tok_out = {}
    /\ CANON_BY_COUNTRY = << >> /\ EXTRA_ALIASES_BY_COUNTRY = << >>
    /\ VARIANTS_CACHE = << >> /\ REVERSE_CACHE = << >>
    /\ cat_call = NoCall
    /\ norm_in = << >> /\ norm_out = << >>
    /\ agg_rows = << >> /\ agg_out = {}
    /\ now = 0
    /\ play_cache = << >> /\ aspy_cache = << >>
    /\ play_doc = << >> /\ aspy_doc = << >>
    /\ cache_call = << >>
    /\ enriched = << >> /\ audit_row = << >>

TokOthers == UNCHANGED << catVars, normVars, aggVars, cacheVars, auditVars,
                    reqVars, fetchVars, scopeVars,
                    flagVars, rankVars >>

\* keyapp_fetch_app_titles: titles.append(str(t))
TitleFetched(t) ==
    /\ tok_out = {}
    /\ Len(tok_titles) < MaxTitles
    /\ tok_titles' = Append(tok_titles, t)
    /\ UNCHANGED << tok_brand, tok_out >>
    /\ TokOthers

\* any_brand_in_title(kw, keyapp_titles), the "used" column of the row
AnyBrandInTitle ==
    /\ tok_out = {}
    /\ tok_out' = { any_brand_in_title(tok_brand, tok_titles) }
    /\ UNCHANGED << tok_brand, tok_titles >>
    /\ TokOthers

TokNext ==
    \/ \E t \in TokTitles : TitleFetched(t)
    \/ AnyBrandInTitle

----------------------------------------------------------------------------
(* Claims about the title matcher.                                         *)

\* the alphanumeric words of a string, case and accents aside
words(s) == SeqRange(findall_alnum(SelectSeq(NFKD(strip(lower(s))), NotCombining)))

\* C6: any_brand_in_title is true when the name has two or more
\* alphanumeric words of which at least two occur as whole words in one
\* and the same title, as for "LV BET" against ["LV BET Casino"].
C6_TwoWordsInOneTitle ==
    (/\ tok_out # {}
     /\ \E i \in DOMAIN tok_titles :
           Cardinality(words(tok_brand) \cap words(tok_titles[i])) >= 2)
    => tok_out = { TRUE }

NameTokens == normalize_tokens(tok_brand)

\* C7: a name that yields exactly one token, shorter than 4 characters, is
\* mentioned in no list of titles; a positive answer always rests on a name
\* token that is equal to a whole word of some title, never on one that is
\* only part of a word; and a single name token of 4 or more characters
\* that is a word of some title gives a positive answer.
C7_ShortTokenNeverEqualityOnly ==
    tok_out # {} =>
       /\ (Len(NameTokens) = 1 /\ Len(NameTokens[1]) < 4) => tok_out = { FALSE }
       /\ tok_out = { TRUE } =>
             \E i \in DOMAIN tok_titles : \E bt \in SeqRange(NameTokens) :
                bt \in words(tok_titles[i])
       /\ (/\ Len(NameTokens) = 1 /\ Len(NameTokens[1]) >= 4
           /\ \E i \in DOMAIN tok_titles : NameTokens[1] \in words(tok_titles[i]))
          => tok_out = { TRUE }

\* "bet365" is found in ["Bet365app", "Bet365 App"]: not in the first title,
\* where it is only part of a word, but in the second
C7_Witness ==
    /\ tok_brand = Str_bet365
    /\ tok_titles = << Str_Bet365app, Str_Bet365_App >>
    /\ tok_out = { TRUE }

----------------------------------------------------------------------------
(* keywordtool_fetch.py, request_keywordtool: one POST per turn of the     *)
(* loop, until it returns or raises.                                       *)

MaxRetries == 2

\* the loop is followed for at most this many requests
MaxRequests == MaxRetries + 2

\* what requests.post does: a response with a status and a body that is
\* JSON or not, or a transport error (a requests.RequestException)
Response(status, json) == [ kind |-> "response", status |-> status, json |-> json ]
TransportError == [ kind |-> "error", status |-> 0, json |-> FALSE ]

Answers ==
    { Response(200, TRUE), Response(200, FALSE), Response(204, FALSE),
      Response(400, TRUE), Response(403, FALSE), Response(429, TRUE),
      Response(503, FALSE), TransportError }

\* resp.json() on a body that is not JSON raises an exception that is a
\* requests.RequestException in recent versions of the library and a plain
\* ValueError in older ones
JsonErrors == { "RequestException", "ValueError" }

\* resp.status_code in (429, 500, 502, 503, 504)
RetryStatuses == { 429, 500, 502, 503, 504 }

\* resp.raise_for_status() raises HTTPError (a RequestException)
raise_for_status_raises(status) == status >= 400 /\ status < 600

Returned200 == [ kind |-> "returned", error |-> "" ]
RaisedError(e) == [ kind |-> "raised", error |-> e ]

\* how one turn of the loop ends, attempt being the number of this request:
\* {} when the loop goes round again, else the way the call ends
under_except(attempt, retries, e) ==
    IF attempt < retries THEN {} ELSE { RaisedError(e) }

turn(answer, attempt, retries, json_error) ==
    IF answer.kind = "error" THEN under_except(attempt, retries, "ConnectionError")
    ELSE IF answer.status = 200
    THEN IF answer.json THEN { Returned200 }
         ELSE IF json_error = "RequestException"
              THEN under_except(attempt, retries, "JSONDecodeError")
              ELSE { RaisedError("ValueError") }
    ELSE IF answer.status \in RetryStatuses /\ attempt < retries THEN {}
    ELSE IF raise_for_status_raises(answer.status)
         THEN under_except(attempt, retries, "HTTPError")
    ELSE {}

InitRequest ==
    /\ flag_data = << >> /\ flag_out = {}
    /\ rank_countries = << >> /\ rank_files = << >>
    /\ rank_audit = << >> /\ rank_out = << >>
    /\ audit_cc = "" /\ written_in = << >>
    /\ req_retries \in 1 .. MaxRetries
    /\ req_attempt = 0
    /\ req_log = << >>
    /\ req_out = {}
    /\ fetch_countries = << >> /\ fetch_batches = 0
    /\ fetch_scope = 0 /\ fetch_batch = 0 /\ fetch_rows = << >>
    /\ fetch_files = << >> /\ fetch_failed = {} /\ fetch_status = "idle"
    /\ CANON_BY_COUNTRY = << >> /\ EXTRA_ALIASES_BY_COUNTRY = << >>
    /\ VARIANTS_CACHE = << >> /\ REVERSE_CACHE = << >>
    /\ cat_call = NoCall
    /\ norm_in = << >> /\ norm_out = << >>
    /\ agg_rows = << >> /\ agg_out = {}
    /\ now = 0
    /\ play_cache = << >> /\ aspy_cache = << >>
    /\ play_doc = << >> /\ aspy_doc = << >>
    /\ cache_call = << >>
    /\ enriched = << >> /\ audit_row = << >>
    /\ tok_brand = << >> /\ tok_titles = << >> /\ tok_out = {}

\* one turn of the while loop: attempt += 1, the POST, and what follows it
RequestTurn(answer, json_error) ==
    /\ req_out = {}
    /\ Len(req_log) < MaxRequests
    /\ req_attempt' = req_attempt + 1
    /\ req_log' = Append(req_log, answer)
    /\ req_out' = turn(answer, req_attempt', req_retries, json_error)
    /\ UNCHANGED << req_retries, fetchVars, catVars, normVars, aggVars, cacheVars,
                    auditVars, tokVars, scopeVars,
                    flagVars, rankVars >>

RequestNext == \E answer \in Answers, json_error \in JsonErrors : RequestTurn(answer, json_error)

----------------------------------------------------------------------------
(* Claims about request_keywordtool.                                       *)

RequestsSent == Len(req_log)

\* C15: for every retries >= 1 and every sequence of responses and
\* transport errors, request_keywordtool sends at most `retries` requests;
\* by then it has returned the body of a 200 response or raised.
C15_AtMostRetriesRequests ==
    /\ RequestsSent <= req_retries
    /\ RequestsSent = req_retries => req_out # {}
    /\ \A o \in req_out :
          o.kind = "returned" => req_log[RequestsSent] = Response(200, TRUE)

----------------------------------------------------------------------------
(* keywordtool_fetch.py, main and fetch_for_country: the scopes one after  *)
(* the other, each in chunks of keywords, one request per chunk.  A step   *)
(* is one request_keywordtool call with all that follows it up to the next *)
(* call.  A row is known by the chunk it came from; a result file is known *)
(* by the rows that were aggregated into it.                               *)

MaxBatches == 4

\* countries: every supported scope, or the one given with --country
CountryChoices ==
    { get_supported_countries }
    \cup { << get_supported_countries[i] >> : i \in DOMAIN get_supported_countries }

\* _result_filename(code) and the file of all scopes
result_filename(code) == << code, "_results.csv" >>
AllResults == << "all", "_results.csv" >>

\* write_csv(path, rows)
write_csv(files, path, rows) ==
    [ f \in DOMAIN files \cup { path } |-> IF f = path THEN rows ELSE files[f] ]

\* all_rows, in main: the rows of the scopes fetched so far
RECURSIVE all_rows(_, _, _)
all_rows(files, countries, n) ==
    IF n = 0 THEN << >>
    ELSE all_rows(files, countries, n - 1) \o files[result_filename(countries[n])]

InitFetch ==
    /\ flag_data = << >> /\ flag_out = {}
    /\ rank_countries = << >> /\ rank_files = << >>
    /\ rank_audit = << >> /\ rank_out = << >>
    /\ audit_cc = "" /\ written_in = << >>
    /\ fetch_countries \in CountryChoices
    /\ fetch_batches \in 1 .. MaxBatches
    /\ fetch_scope = 1 /\ fetch_batch = 1
    /\ fetch_rows = << >>
    /\ fetch_files = << >>
    /\ fetch_failed = {}
    /\ fetch_status = "running"
    /\ req_retries = 0 /\ req_attempt = 0 /\ req_log = << >> /\ req_out = {}
    /\ CANON_BY_COUNTRY = << >> /\ EXTRA_ALIASES_BY_COUNTRY = << >>
    /\ VARIANTS_CACHE = << >> /\ REVERSE_CACHE = << >>
    /\ cat_call = NoCall
    /\ norm_in = << >> /\ norm_out = << >>
    /\ agg_rows = << >> /\ agg_out = {}
    /\ now = 0
    /\ play_cache = << >> /\ aspy_cache = << >>
    /\ play_doc = << >> /\ aspy_doc = << >>
    /\ cache_call = << >>
    /\ enriched = << >> /\ audit_row = << >>
    /\ tok_brand = << >> /\ tok_titles = << >> /\ tok_out = {}

FetchOthers ==
    UNCHANGED << fetch_countries, fetch_batches, reqVars, catVars, normVars, aggVars,
                 cacheVars, auditVars, tokVars, scopeVars,
                    flagVars, rankVars >>

FetchCode == fetch_countries[fetch_scope]

\* request_keywordtool returned data for this chunk: its rows are added;
\* after the last chunk of the scope the rows are aggregated and written,
\* and after the last scope of several the file of all scopes is written
BatchReturns ==
    /\ fetch_status = "running"
    /\ LET rows == Append(fetch_rows, << FetchCode, fetch_batch >>)
           written == write_csv(fetch_files, result_filename(FetchCode), rows)
       IN  IF fetch_batch < fetch_batches
           THEN /\ fetch_rows' = rows
                /\ fetch_batch' = fetch_batch + 1
                /\ UNCHANGED << fetch_scope, fetch_files, fetch_status >>
           ELSE IF fetch_scope < Len(fetch_countries)
           THEN /\ fetch_files' = written
                /\ fetch_scope' = fetch_scope + 1
                /\ fetch_batch' = 1
                /\ fetch_rows' = << >>
                /\ UNCHANGED fetch_status
           ELSE /\ fetch_files' =
                      IF Len(fetch_countries) > 1
                      THEN write_csv(written, AllResults,
                                     all_rows(written, fetch_countries, Len(fetch_countries)))
                      ELSE written
                /\ fetch_status' = "done"
                /\ UNCHANGED << fetch_scope, fetch_batch, fetch_rows >>
    /\ UNCHANGED fetch_failed
    /\ FetchOthers

\* request_keywordtool raised for this chunk: nothing catches the error in
\* fetch_for_country or in main
BatchRaises ==
    /\ fetch_status = "running"
    /\ fetch_failed' = fetch_failed \cup { << FetchCode, fetch_batch >> }
    /\ fetch_status' = "aborted"
    /\ UNCHANGED << fetch_scope, fetch_batch, fetch_rows, fetch_files >>
    /\ FetchOthers

FetchNext == BatchReturns \/ BatchRaises

\* an answer after which the claim lets the call try again
MayBeRetried(answer) ==
    answer.kind = "error" \/ answer.status \in { 200, 429, 500, 502, 503, 504 }

\* C29: request_keywordtool tries again only after a transport error or a
\* response with status 429, 500, 502, 503 or 504: a response with another
\* status that is not 200 is the last one of the call, which has then
\* ended with an error.
C29_OtherStatusEndsTheCall ==
    \A i \in DOMAIN req_log :
       ~ MayBeRetried(req_log[i]) =>
          /\ i = Len(req_log)
          /\ req_out # {}
          /\ \A o \in req_out : o.kind = "raised"

----------------------------------------------------------------------------
(* Claims about the fetch run.                                             *)

\* the chunks of a scope other than those whose request failed
OtherBatches(code) ==
    { << code, b >> : b \in 1 .. fetch_batches } \ fetch_failed

\* C16: when the request of one chunk has failed for good, the run is not
\* aborted: it goes on, and once it is over every scope has its result file,
\* holding the rows of the scope's other chunks.
C16_FailedBatchDoesNotAbort ==
    fetch_failed # {} =>
       /\ fetch_status # "aborted"
       /\ fetch_status = "done" =>
             \A i \in DOMAIN fetch_countries :
                LET path == result_filename(fetch_countries[i])
                IN  /\ path \in DOMAIN fetch_files
                    /\ SeqRange(fetch_files[path]) = OtherBatches(fetch_countries[i])

----------------------------------------------------------------------------
(* main of niche_brand_audit.py: one process audits the countries one      *)
(* after the other over the same two caches.  written_in remembers, for    *)
(* every entry of a cache, the audit during which it was stored.           *)

NoneWritten == [ play |-> << >>, aspy |-> << >> ]

\* the entries of cache after a lookup of key made during the audit of cc
stored_by(marks, cache, key, call, cc) ==
    IF key \notin DOMAIN cache THEN Pop(marks, key)
    ELSE IF call.computed /\ ~ call.raised THEN Put(marks, key, cc)
    ELSE marks

\* the process starts with no cache files: _read_cache returns {} for both
InitScopes ==
    /\ flag_data = << >> /\ flag_out = {}
    /\ rank_countries = << >> /\ rank_files = << >>
    /\ rank_audit = << >> /\ rank_out = << >>
    /\ audit_cc = "" /\ written_in = NoneWritten
    /\ req_retries = 0 /\ req_attempt = 0 /\ req_log = << >> /\ req_out = {}
    /\ fetch_countries = << >> /\ fetch_batches = 0
    /\ fetch_scope = 0 /\ fetch_batch = 0 /\ fetch_rows = << >>
    /\ fetch_files = << >> /\ fetch_failed = {} /\ fetch_status = "idle"
    /\ now = 0
    /\ play_doc = json_dumps(<< >>)
    /\ aspy_doc = json_dumps(<< >>)
    /\ play_cache = read_cache(play_doc)
    /\ aspy_cache = read_cache(aspy_doc)
    /\ cache_call = NoCacheCall
    /\ CANON_BY_COUNTRY = << >> /\ EXTRA_ALIASES_BY_COUNTRY = << >>
    /\ VARIANTS_CACHE = << >> /\ REVERSE_CACHE = << >>
    /\ cat_call = NoCall
    /\ norm_in = << >> /\ norm_out = << >>
    /\ agg_rows = << >> /\ agg_out = {}
    /\ enriched = << >> /\ audit_row = << >>
    /\ tok_brand = << >> /\ tok_titles = << >> /\ tok_out = {}

ScopesOthers == UNCHANGED << catVars, normVars, aggVars, auditVars, tokVars,
                             reqVars, fetchVars, flagVars, rankVars >>

\* for cc in countries: audit_country_all_brands(country_code=cc, ...)
NextCountry(cc) ==
    /\ \E i \in 1..Len(get_supported_countries) :
          /\ get_supported_countries[i] = cc
          /\ audit_cc = IF i = 1 THEN "" ELSE get_supported_countries[i - 1]
    /\ audit_cc' = cc
    /\ cache_call' = NoCacheCall
    /\ UNCHANGED << now, play_cache, aspy_cache, play_doc, aspy_doc, written_in >>
    /\ ScopesOthers

\* candidates = play_search_cached(kw, lang, country_code, topn, cache_ttl_days)
AuditPlaySearch(ttl_days, outcome) ==
    /\ audit_cc # ""
    /\ play_search_cached("Betano", get_country_language(audit_cc), audit_cc, TopN,
                          ttl_days, outcome)
    /\ written_in' = [ written_in EXCEPT !.play =
          stored_by(@, play_cache', cache_call'.key, cache_call', audit_cc) ]
    /\ UNCHANGED << now, aspy_cache, aspy_doc, audit_cc >>
    /\ ScopesOthers

\* meta = aspy_enrich_cached(c["appId"], sess, cache_ttl_days)
AuditAspyEnrich(app_id, ttl_days, outcome) ==
    /\ audit_cc # ""
    /\ aspy_enrich_cached(app_id, ttl_days, outcome)
    /\ written_in' = [ written_in EXCEPT !.aspy =
          stored_by(@, aspy_cache', app_id, cache_call', audit_cc) ]
    /\ UNCHANGED << now, play_cache, play_doc, audit_cc >>
    /\ ScopesOthers

\* _now() moves on while the audits run
AuditClockTick ==
    /\ now < MaxNow
    /\ now' = now + 1
    /\ cache_call' = NoCacheCall
    /\ UNCHANGED << play_cache, aspy_cache, play_doc, aspy_doc, scopeVars >>
    /\ ScopesOthers

ScopesNext ==
    \/ AuditClockTick
    \/ \E cc \in Countries : NextCountry(cc)
    \/ \E ttl_days \in TtlChoices, outcome \in PlayOutcomes :
          AuditPlaySearch(ttl_days, outcome)
    \/ \E app_id \in AppIds, ttl_days \in TtlChoices, outcome \in AspyOutcomes :
          AuditAspyEnrich(app_id, ttl_days, outcome)

\* the audit that stored the entry the last lookup found
FoundWrittenIn ==
    IF cache_call.op = "play" THEN Get(written_in.play, cache_call.key)
    ELSE IF cache_call.op = "aspy" THEN Get(written_in.aspy, cache_call.key[1])
    ELSE {}

\* C19: no cache entry written while one country is audited is read while
\* another is: a payload served from either cache during the audit of a
\* country was stored during the audit of that same country.
C19_NoEntryCrossesScopes ==
    Served => FoundWrittenIn = { audit_cc }


----------------------------------------------------------------------------
(* _extract_banned_flag called on every payload of the model.              *)

NotCalled == [ done |-> FALSE, ret |-> {} ]

InitBanFlag ==
    /\ flag_data \in FlagPayloads
    /\ flag_out = NotCalled
    /\ rank_countries = << >> /\ rank_files = << >>
    /\ rank_audit = << >> /\ rank_out = << >>
    /\ audit_cc = "" /\ written_in = << >>
    /\ req_retries = 0 /\ req_attempt = 0 /\ req_log = << >> /\ req_out = {}
    /\ fetch_countries = << >> /\ fetch_batches = 0
    /\ fetch_scope = 0 /\ fetch_batch = 0 /\ fetch_rows = << >>
    /\ fetch_files = << >> /\ fetch_failed = {} /\ fetch_status = "idle"
    /\ tok_brand = << >> /\ tok_titles = << >> /\ tok_out = {}
    /\ CANON_BY_COUNTRY = << >> /\ EXTRA_ALIASES_BY_COUNTRY = << >>
    /\ VARIANTS_CACHE = << >> /\ REVERSE_CACHE = << >>
    /\ cat_call = NoCall
    /\ norm_in = << >> /\ norm_out = << >>
    /\ agg_rows = << >> /\ agg_out = {}
    /\ now = 0
    /\ play_cache = << >> /\ aspy_cache = << >>
    /\ play_doc = << >> /\ aspy_doc = << >>
    /\ cache_call = << >>
    /\ enriched = << >> /\ audit_row = << >>

FlagOthers == UNCHANGED << catVars, normVars, aggVars, cacheVars, auditVars, tokVars,
                           reqVars, fetchVars, scopeVars, rankVars >>

\* b = _extract_banned_flag(data)
ExtractBannedFlag ==
    /\ ~ flag_out.done
    /\ flag_out' = [ done |-> TRUE, ret |-> extract_banned_flag(flag_data) ]
    /\ UNCHANGED flag_data
    /\ FlagOthers

BanFlagNext == ExtractBannedFlag


----------------------------------------------------------------------------
(* Claims about _extract_banned_flag.                                      *)

FlagDone == flag_out.done
KeysIn(data, keys) == { keys[i] : i \in DOMAIN keys } \cap DOMAIN data.bools
DirectAtTop == KeysIn(flag_data, DirectKeys)
InvertedAtTop == KeysIn(flag_data, NewKeys) \cup KeysIn(flag_data, ExplicitKeys)

\* the object itself carries a signal: a boolean under one of the known
\* keys, or a status text with one of the markers
HasOwnSignal(data) ==
    \/ KeysIn(data, DirectKeys) # {}
    \/ KeysIn(data, NewKeys) # {}
    \/ KeysIn(data, ExplicitKeys) # {}
    \/ \E t \in data.status : \E x \in StatusMarkers : IsSubstring(x, lower(t))

\* C22: the strategies apply in the order direct ban booleans, inverted
\* published/available booleans, status text, nested sub-objects: when the
\* payload has no direct ban boolean at top level and has a top-level
\* inverted boolean (published, listing_visible, is_published,
\* is_available), the result is the negation of such a boolean, whatever
\* the status text and the sub-objects hold.
C22_InvertedBeforeStatusAndNested ==
    (FlagDone /\ DirectAtTop = {} /\ InvertedAtTop # {}) =>
       flag_out.ret \in { { ~ flag_data.bools[k] } : k \in InvertedAtTop }

\* C23: the nested search goes one level deep: when neither the payload
\* nor any of its sub-objects carries a signal of its own, so that signals
\* lie two or more levels deep at best, the result is None.
C23_NestedOneLevelOnly ==
    (/\ FlagDone
     /\ ~ HasOwnSignal(flag_data)
     /\ \A k \in DOMAIN flag_data.subs : ~ HasOwnSignal(flag_data.subs[k])) =>
       flag_out.ret = {}

\* C24: when a direct ban boolean (is_banned, banned, removed, suspended,
\* unpublished, deleted) is present at top level, its value, true or false,
\* is the result.
C24_DirectBooleanDecides ==
    (FlagDone /\ DirectAtTop # {}) =>
       flag_out.ret \in { { flag_data.bools[k] } : k \in DirectAtTop }

----------------------------------------------------------------------------
(* rank_competitors.py: the search volumes of the result files are joined  *)
(* to the rows of the audit.  The order of the output rows (sort_values)   *)
(* is not recorded: the output is the set of its rows.                     *)

\* the canonical lists of the scopes, as far as the brands of the model go
RankCatalog ==
    [ cc \in Countries |->
        IF cc = "pl" THEN << Str_Bet365 >> ELSE << Str_Betano, Str_Bet365 >> ]

\* get_country_title(cc); the titles stand for the Cyrillic names
get_country_title(cc) ==
    IF cc = "ar" THEN "Argentina" ELSE IF cc = "br" THEN "Brazil" ELSE "Poland"

\* _norm_basic(s): strip, lower, no diacritics, only a-z0-9
norm_basic(s) == normalize_text(s)

\* _canon(country_code, s): the canon of the catalog, else _norm_basic(s);
\* country_code is {} for None
canon_of(country_code, s) ==
    IF country_code = {} THEN norm_basic(s)
    ELSE LET cl == RankCatalog[CHOOSE cc \in country_code : TRUE]
             c == RevGet(make_reverse_index(cl, build_variants_map(cl, << >>)),
                         normalize_text(s))
         IN  IF c # {} /\ (CHOOSE x \in c : TRUE) # << >>
             THEN CHOOSE x \in c : TRUE
             ELSE norm_basic(s)

\* a row of <cc>_results.csv; search_volume is {} when the cell is empty
VolRow(keyword, sv) == [ keyword |-> keyword, search_volume |-> sv ]
\* df["search_volume"].fillna(0)
fillna0(sv) == IF sv = {} THEN 0 ELSE CHOOSE v \in sv : TRUE

\* a file that is missing is {}, one that exists { rows }
FileChoices ==
    { {} } \cup { { << VolRow(Str_Betano, sv) >> } : sv \in { {}, { 100 }, { 250 } } }
            \cup { { << VolRow(Str_Betano, { 100 }), VolRow(Str_unknownbrand, { 999 }) >> } }

\* the rows of the audit CSV: the brand and the title of its country
AuditRow(key, cc) == [ key |-> key, country |-> get_country_title(cc) ]
RankAudit ==
    << AuditRow(Str_Betano, "ar"), AuditRow(Str_Betano, "br"), AuditRow(Str_Bet365, "pl") >>

\* countries = get_supported_countries() if args.country == "all" else [args.country]
RankCountryChoices == { get_supported_countries } \cup { << cc >> : cc \in Countries }

\* load_volumes: the rows of the files that exist, with their canon
RECURSIVE vol_rows(_, _, _)
vol_rows(files, countries, i) ==
    IF i > Len(countries) THEN << >>
    ELSE LET cc == countries[i]
             rows == IF files[cc] = {} THEN << >> ELSE CHOOSE f \in files[cc] : TRUE
         IN  [ n \in DOMAIN rows |->
                 [ canon |-> canon_of({ cc }, strip(rows[n].keyword)),
                   search_volume |-> fillna0(rows[n].search_volume) ] ]
             \o vol_rows(files, countries, i + 1)

MaxOf(S) == CHOOSE m \in S : \A x \in S : x <= m

\* vol.groupby("canon")["search_volume"].max(): canon -> volume
load_volumes(files, countries) ==
    LET all == vol_rows(files, countries, 1)
        canons == { all[n].canon : n \in DOMAIN all }
    IN  [ c \in canons |->
            MaxOf({ all[n].search_volume : n \in { k \in DOMAIN all : all[k].canon = c } }) ]

\* title2cc.get(r["country"])
title2cc(title) == { cc \in Countries : get_country_title(cc) = title }

\* main, with the default options: the audit rows of the chosen countries,
\* each with the volume of its canon (0 when there is none)
merged_rows(audit, files, countries) ==
    LET chosen == { countries[i] : i \in DOMAIN countries }
        kept == { n \in DOMAIN audit : title2cc(audit[n].country) \cap chosen # {} }
        country_for_canon == IF Len(countries) = 1 THEN { countries[1] } ELSE {}
        vol == load_volumes(files, countries)
        canon(n) == IF country_for_canon # {}
                    THEN canon_of(country_for_canon, audit[n].key)
                    ELSE canon_of(title2cc(audit[n].country), audit[n].key)
    IN  { [ key |-> audit[n].key, country |-> audit[n].country,
            search_volume |-> IF canon(n) \in DOMAIN vol THEN vol[canon(n)] ELSE 0 ] :
          n \in kept }

RankNotRun == [ done |-> FALSE, rows |-> {} ]

InitRank ==
    /\ rank_countries \in RankCountryChoices
    /\ rank_files \in [ Countries -> FileChoices ]
    /\ rank_audit = RankAudit
    /\ rank_out = RankNotRun
    /\ flag_data = << >> /\ flag_out = {}
    /\ audit_cc = "" /\ written_in = << >>
    /\ req_retries = 0 /\ req_attempt = 0 /\ req_log = << >> /\ req_out = {}
    /\ fetch_countries = << >> /\ fetch_batches = 0
    /\ fetch_scope = 0 /\ fetch_batch = 0 /\ fetch_rows = << >>
    /\ fetch_files = << >> /\ fetch_failed = {} /\ fetch_status = "idle"
    /\ tok_brand = << >> /\ tok_titles = << >> /\ tok_out = {}
    /\ CANON_BY_COUNTRY = << >> /\ EXTRA_ALIASES_BY_COUNTRY = << >>
    /\ VARIANTS_CACHE = << >> /\ REVERSE_CACHE = << >>
    /\ cat_call = NoCall
    /\ norm_in = << >> /\ norm_out = << >>
    /\ agg_rows = << >> /\ agg_out = {}
    /\ now = 0
    /\ play_cache = << >> /\ aspy_cache = << >>
    /\ play_doc = << >> /\ aspy_doc = << >>
    /\ cache_call = << >>
    /\ enriched = << >> /\ audit_row = << >>

RankOthers == UNCHANGED << catVars, normVars, aggVars, cacheVars, auditVars, tokVars,
                           reqVars, fetchVars, scopeVars, flagVars >>

\* rank_competitors.main
RankMain ==
    /\ ~ rank_out.done
    /\ rank_out' = [ done |-> TRUE,
                     rows |-> merged_rows(rank_audit, rank_files, rank_countries) ]
    /\ UNCHANGED << rank_countries, rank_files, rank_audit >>
    /\ RankOthers

RankNext == RankMain

----------------------------------------------------------------------------
(* Claims about the join of the volumes.                                   *)

\* the volumes of the file of scope cc whose keyword has the canon of key
\* in that scope, an empty cell counting as 0
ScopeVolumes(cc, key) ==
    LET rows == IF rank_files[cc] = {} THEN << >> ELSE CHOOSE f \in rank_files[cc] : TRUE
    IN  { fillna0(rows[n].search_volume) :
            n \in { k \in DOMAIN rows :
                      canon_of({ cc }, rows[k].keyword) = canon_of({ cc }, key) } }

\* C27: in a run over several scopes, the search volume joined to an audit
\* row of scope S is the maximum over the volume rows of the file of S with
\* the same canon (0 when there is none): the rows of another scope with
\* the same canonical name do not change it.
C27_VolumeOfOwnScopeOnly ==
    rank_out.done =>
       \A r \in rank_out.rows : \A cc \in title2cc(r.country) :
          r.search_volume =
             IF ScopeVolumes(cc, r.key) = {} THEN 0 ELSE MaxOf(ScopeVolumes(cc, r.key))


----------------------------------------------------------------------------
(* Specifications: one per component, the other components at rest.        *)

\* the catalog: arbitrary content in one scope, calls in any order
SpecCatalog == InitCatalog /\ [][CatNext]_vars

\* normalize_text applied to every short string, and again to its result
SpecNormalize == InitNormalize /\ [][NormalizeCall]_vars

\* aggregate_to_canonical on every short list of rows
SpecAggregate == InitAggregate /\ [][AggNext]_vars

\* the two caches: any persisted content, lookups and clock ticks in any order
SpecCache == InitCache /\ [][CacheNext]_vars

\* the competitor selection on every short list of enriched candidates
SpecAudit == InitAudit /\ [][AuditNext]_vars

\* the title matcher on every brand and every short list of titles
SpecToken == InitToken /\ [][TokNext]_vars

\* request_keywordtool against every short sequence of answers
SpecRequest == InitRequest /\ [][RequestNext]_vars

\* the fetch run over every choice of scopes, each request returning or raising
SpecFetch == InitFetch /\ [][FetchNext]_vars

\* the audits of all countries, one after the other, over empty caches
SpecScopes == InitScopes /\ [][ScopesNext]_vars

\* _extract_banned_flag on every payload of the model
SpecBanFlag == InitBanFlag /\ [][BanFlagNext]_vars

\* rank_competitors.main on every choice of countries and result files
SpecRank == InitRank /\ [][RankNext]_vars

====
